---- MODULE Spec2Model ----
(***************************************************************************)
(* Form workflow engine of the dynamic-forms repository: the four XState   *)
(* machine variants (formMachineFactory.js, interpretedFormMachine.js, the *)
(* shared formMachineDefinition run by the WebSocket session host, and the *)
(* client machine of App.jsx), the schema compilers and the validators.    *)
(*                                                                         *)
(* Conventions.                                                            *)
(*  - A JavaScript value is a record [t, s, n]: t is its typeof-like tag,  *)
(*    s the characters of a string (a sequence of one-character strings),  *)
(*    n the number (or 0/1 for a boolean).                                 *)
(*  - A JavaScript object used as a map (form, errors) is a function whose *)
(*    DOMAIN is its set of own keys.                                       *)
(*  - An optional attribute, and a nullable context field, is a sequence   *)
(*    of length 0 (absent / undefined / null) or 1 (present).              *)
(*  - One Next step is one macrostep of the interpreter: an event is       *)
(*    processed to completion, transient (always) transitions included.    *)
(***************************************************************************)
EXTENDS Integers, Sequences, FiniteSets, TLC

VARIABLES
    variant,     \* which machine this session runs
    action,      \* the action definition the machine was created for
    state,       \* state.value of the interpreter (resting state)
    ctx,         \* state.context
    pending,     \* the invoked promise of the current state: <<>> or <<call>>
    status,      \* the interpreter: "running", or "stopped" by service.stop()
    lastEvent,   \* the event processed by the last step
    lastStep,    \* what the last step did: states entered, validations, calls
    vIn,         \* pure-function harness: the inputs drawn
    vOut,        \* pure-function harness: the outputs computed
    sessions,    \* concurrent WebSocket sessions: one machine per connection
    validatorErrors  \* the errors property of the precompiled validator

vars ==
    <<variant, action, state, ctx, pending, status, lastEvent, lastStep, vIn, vOut,
      sessions, validatorErrors>>

(***************************************************************************)
(* JavaScript values                                                       *)
(***************************************************************************)
None == <<>>
Some(x) == <<x>>
Has(o) == o # <<>>
Get(o) == o[1]

Undefined == [t |-> "undefined", s |-> <<>>, n |-> 0]
NullV == [t |-> "null", s |-> <<>>, n |-> 0]
StrV(chars) == [t |-> "string", s |-> chars, n |-> 0]
NumV(k) == [t |-> "number", s |-> <<>>, n |-> k]
BoolV(b) == [t |-> "boolean", s |-> <<>>, n |-> IF b THEN 1 ELSE 0]
EmptyStr == StrV(<<>>)

\* obj[key] of a JavaScript object: undefined when the key is not an own key
Lookup(obj, key) == IF key \in DOMAIN obj THEN obj[key] ELSE Undefined

\* { ...obj, [key]: value }
SpreadSet(obj, key, value) ==
    [k \in DOMAIN obj \cup {key} |-> IF k = key THEN value ELSE obj[k]]

\* { ...a, ...b }
SpreadMerge(a, b) ==
    [k \in DOMAIN a \cup DOMAIN b |-> IF k \in DOMAIN b THEN b[k] ELSE a[k]]

\* const next = { ...obj }; delete next[key]
DeleteKey(obj, key) == [k \in DOMAIN obj \ {key} |-> obj[k]]

EmptyObj == [k \in {} |-> Undefined]

\* Object.keys(obj).length === 0
NoKeys(obj) == DOMAIN obj = {}

(***************************************************************************)
(* Strings                                                                 *)
(***************************************************************************)
IsSpace(c) == c = " "

RECURSIVE TrimStart(_)
TrimStart(s) ==
    IF s = <<>> THEN s
    ELSE IF IsSpace(Head(s)) THEN TrimStart(Tail(s)) ELSE s

RECURSIVE TrimEnd(_)
TrimEnd(s) ==
    IF s = <<>> THEN s
    ELSE IF IsSpace(s[Len(s)]) THEN TrimEnd(SubSeq(s, 1, Len(s) - 1)) ELSE s

\* String.prototype.trim
Trim(s) == TrimEnd(TrimStart(s))

\* the characters of s[from..to] are all outside [\s@]
NoSpaceNoAt(s, from, to) ==
    \A i \in from..to : ~IsSpace(s[i]) /\ s[i] # "@"

\* /^[^\s@]+@[^\s@]+\.[^\s@]+$/.test(s)
EmailRegexTest(s) ==
    \E i \in 1..Len(s) : \E j \in 1..Len(s) :
        /\ s[i] = "@"
        /\ s[j] = "."
        /\ i > 1 /\ j > i + 1 /\ j < Len(s)
        /\ NoSpaceNoAt(s, 1, i - 1)
        /\ NoSpaceNoAt(s, i + 1, j - 1)
        /\ NoSpaceNoAt(s, j + 1, Len(s))

IsDigit(c) == c \in {"0", "1", "2", "3", "4", "5", "6", "7", "8", "9"}

DigitVal(c) ==
    CASE c = "0" -> 0 [] c = "1" -> 1 [] c = "2" -> 2 [] c = "3" -> 3
      [] c = "4" -> 4 [] c = "5" -> 5 [] c = "6" -> 6 [] c = "7" -> 7
      [] c = "8" -> 8 [] c = "9" -> 9

DigitStr(d) ==
    CASE d = 0 -> "0" [] d = 1 -> "1" [] d = 2 -> "2" [] d = 3 -> "3"
      [] d = 4 -> "4" [] d = 5 -> "5" [] d = 6 -> "6" [] d = 7 -> "7"
      [] d = 8 -> "8" [] d = 9 -> "9"

RECURSIVE Join(_)
Join(chars) == IF chars = <<>> THEN "" ELSE Head(chars) \o Join(Tail(chars))

\* the characters of String(k) for an integer k
RECURSIVE NumChars(_)
NumChars(k) ==
    IF k < 0 THEN <<"-">> \o NumChars(0 - k)
    ELSE IF k < 10 THEN <<DigitStr(k)>>
    ELSE NumChars(k \div 10) \o <<DigitStr(k % 10)>>

\* the text of an integer inside a template literal: `${k}`
NumStr(k) == Join(NumChars(k))

RECURSIVE DigitsVal(_, _)
DigitsVal(s, acc) ==
    IF s = <<>> THEN acc ELSE DigitsVal(Tail(s), acc * 10 + DigitVal(Head(s)))

\* Number(value): [nan |-> TRUE] or the number.  Number("") and Number("  ")
\* are 0, Number(null) is 0, Number(true) is 1, Number(undefined) is NaN.
ToNumber(v) ==
    CASE v.t = "number" -> [nan |-> FALSE, n |-> v.n]
      [] v.t = "boolean" -> [nan |-> FALSE, n |-> v.n]
      [] v.t = "null" -> [nan |-> FALSE, n |-> 0]
      [] v.t = "string" ->
            LET body == Trim(v.s) IN
            IF body = <<>> THEN [nan |-> FALSE, n |-> 0]
            ELSE IF \A i \in 1..Len(body) : IsDigit(body[i])
                 THEN [nan |-> FALSE, n |-> DigitsVal(body, 0)]
                 ELSE [nan |-> TRUE, n |-> 0]
      [] OTHER -> [nan |-> TRUE, n |-> 0]

\* the characters of String(value)
StringOf(v) ==
    CASE v.t = "string" -> v.s
      [] v.t = "number" -> NumChars(v.n)
      [] v.t = "boolean" ->
            IF v.n = 1 THEN <<"t", "r", "u", "e">> ELSE <<"f", "a", "l", "s", "e">>
      [] v.t = "null" -> <<"n", "u", "l", "l">>
      [] OTHER -> <<"u", "n", "d", "e", "f", "i", "n", "e", "d">>

(***************************************************************************)
(* Field definitions (the entries of action.formJson)                      *)
(***************************************************************************)
\* a field carrying only a name: every other attribute undefined
Field(name) ==
    [name |-> name, type |-> None, label |-> None, required |-> FALSE,
     minLength |-> None, maxLength |-> None, minimum |-> None, maximum |-> None,
     pattern |-> None, format |-> None, options |-> None, default |-> None,
     placeholder |-> None]

Option(value, label) == [value |-> value, label |-> label]

\* if (x): an optional number is truthy when present and not 0
TruthyNum(o) == Has(o) /\ Get(o) # 0
\* if (x): an optional string is truthy when present and not ''
TruthyStr(o) == Has(o) /\ Get(o) # ""

\* the names of a field list
FieldNames(formJson) == {formJson[i].name : i \in 1..Len(formJson)}

\* formJson.find((f) => f.name === name): None when no field has the name
FindField(formJson, name) ==
    IF \E i \in 1..Len(formJson) : formJson[i].name = name
    THEN Some(formJson[CHOOSE i \in 1..Len(formJson) :
                 /\ formJson[i].name = name
                 /\ \A j \in 1..(i - 1) : formJson[j].name # name])
    ELSE None

(***************************************************************************)
(* JSON Schema properties, as the schema compilers build them              *)
(***************************************************************************)
\* const prop = {}: no keyword set
EmptyProp ==
    [title |-> None, type |-> None, format |-> None, minLength |-> None,
     maxLength |-> None, pattern |-> None, minimum |-> None, maximum |-> None,
     enum |-> None, oneOf |-> None, default |-> None]

\* the TypeError a compiler throws: undefined.map(...)
TypeError == [throws |-> "TypeError"]

\* some select field of the list carries no options: f.options.map throws
SelectWithoutOptions(formJson) ==
    \E i \in 1..Len(formJson) :
        formJson[i].type = Some("select") /\ ~Has(formJson[i].options)

\* !!v is false
Falsy(v) == v \in {Undefined, NullV, EmptyStr, NumV(0), BoolV(FALSE)}

\* options.map((o) => o.value)
OptionValues(options) == [i \in 1..Len(options) |-> options[i].value]

\* validators.js: the switch on f.type of formJsonToValidationSchema
ValidationProp(f) ==
    LET base == [EmptyProp EXCEPT !.title = f.label]
        type == IF Has(f.type) THEN Get(f.type) ELSE "undefined"
    IN  CASE type \in {"string", "email", "password"} ->
                [base EXCEPT
                    !.type = Some("string"),
                    !.format = IF TruthyStr(f.format) THEN f.format ELSE None,
                    !.minLength = IF TruthyNum(f.minLength) THEN f.minLength ELSE None,
                    !.maxLength = IF TruthyNum(f.maxLength) THEN f.maxLength ELSE None,
                    !.pattern = IF TruthyStr(f.pattern) THEN f.pattern ELSE None]
          [] type \in {"number", "integer"} ->
                [base EXCEPT
                    !.type = Some(type),
                    !.minimum = f.minimum,
                    !.maximum = f.maximum]
          [] type = "select" ->
                \* (f.options.map throws when options is undefined: see
                \* formJsonToValidationSchema)
                [base EXCEPT
                    !.type = Some("string"),
                    !.enum = Some(OptionValues(Get(f.options)))]
          [] type = "boolean" -> [base EXCEPT !.type = Some("boolean")]
          [] OTHER -> [base EXCEPT !.type = Some("string")]

\* the required names collected in reverse: each name is put in front of
\* the list instead of pushed to its end
RECURSIVE RequiredNames_unshift(_)
RequiredNames_unshift(formJson) ==
    IF formJson = <<>> THEN <<>>
    ELSE RequiredNames_unshift(Tail(formJson))
            \o (IF Head(formJson).required THEN <<Head(formJson).name>> ELSE <<>>)

\* names of the fields with a truthy required flag, in field order
RECURSIVE RequiredNames(_)
RequiredNames(formJson) ==
    IF formJson = <<>> THEN <<>>
    ELSE (IF Head(formJson).required THEN <<Head(formJson).name>> ELSE <<>>)
            \o RequiredNames(Tail(formJson))

\* validators.js formJsonToValidationSchema: { type: 'object', properties, required }
\* properties keeps the insertion order of the field list
formJsonToValidationSchema(formJson) ==
    IF SelectWithoutOptions(formJson) THEN TypeError
    ELSE [type |-> "object",
          properties |-> [i \in 1..Len(formJson) |->
                            [name |-> formJson[i].name,
                             prop |-> ValidationProp(formJson[i])]],
          required |-> RequiredNames(formJson)]

\* the shared module: the switch on field.type of formJsonToJsonSchema
SharedProp(field) ==
    LET type == IF Has(field.type) THEN Get(field.type) ELSE "undefined"
        typed ==
            CASE type \in {"string", "text", "textarea"} ->
                    [EmptyProp EXCEPT
                        !.type = Some("string"),
                        !.minLength = IF TruthyNum(field.minLength) THEN field.minLength ELSE None,
                        !.maxLength = IF TruthyNum(field.maxLength) THEN field.maxLength ELSE None,
                        !.pattern = IF TruthyStr(field.pattern) THEN field.pattern ELSE None]
              [] type = "email" ->
                    [EmptyProp EXCEPT !.type = Some("string"), !.format = Some("email")]
              [] type \in {"number", "integer"} ->
                    [EmptyProp EXCEPT
                        !.type = Some(type),
                        !.minimum = field.minimum,
                        !.maximum = field.maximum]
              [] type = "select" ->
                    [EmptyProp EXCEPT
                        !.type = Some("string"),
                        !.enum = Some(OptionValues(Get(field.options))),
                        !.oneOf = Some(OptionValues(Get(field.options)))]
              [] type = "boolean" -> [EmptyProp EXCEPT !.type = Some("boolean")]
              [] type = "date" ->
                    [EmptyProp EXCEPT !.type = Some("string"), !.format = Some("date")]
              [] OTHER -> [EmptyProp EXCEPT !.type = Some("string")]
    IN  [typed EXCEPT
            !.default = field.default,
            !.title = IF TruthyStr(field.label) THEN field.label ELSE None]

\* the shared module's formJsonToJsonSchema(formJson, title)
SharedFormJsonToJsonSchema(formJson) ==
    IF SelectWithoutOptions(formJson) THEN TypeError
    ELSE [type |-> "object",
          properties |-> [i \in 1..Len(formJson) |->
                            [name |-> formJson[i].name,
                             prop |-> SharedProp(formJson[i])]],
          required |-> RequiredNames(formJson)]

\* interpretedFormMachine.js: the module-level example action, whose label
\* formJsonToJsonSchema reads for the schema title
I_action == [id |-> "createUser", label |-> Some("Create User")]

\* interpretedFormMachine.js: the switch on type of formJsonToJsonSchema
InterpretedProp(field) ==
    LET type == IF Has(field.type) THEN Get(field.type) ELSE "undefined"
        typed ==
            CASE type \in {"string", "email", "password", "textarea"} ->
                    [EmptyProp EXCEPT
                        !.type = Some("string"),
                        !.format = IF TruthyStr(field.format) THEN field.format ELSE None,
                        !.minLength = IF TruthyNum(field.minLength) THEN field.minLength ELSE None,
                        !.default = field.default]
              [] type \in {"number", "integer"} ->
                    [EmptyProp EXCEPT
                        !.type = Some("number"),
                        !.minimum = field.minimum,
                        !.maximum = field.maximum,
                        !.default = field.default]
              [] type \in {"select", "radio"} ->
                    [EmptyProp EXCEPT
                        !.type = Some("string"),
                        !.enum = IF Has(field.options)
                                 THEN Some(OptionValues(Get(field.options)))
                                 ELSE Some(<<>>),
                        !.default = field.default]
              [] type = "boolean" ->
                    [EmptyProp EXCEPT
                        !.type = Some("boolean"),
                        !.default = IF Has(field.default)
                                    THEN Some(BoolV(~Falsy(Get(field.default))))
                                    ELSE None]
              [] OTHER ->
                    [EmptyProp EXCEPT !.type = Some("string"), !.default = field.default]
    IN  [typed EXCEPT !.title = IF TruthyStr(field.label) THEN field.label ELSE None]

\* interpretedFormMachine.js: the uiSchema entry of one field
InterpretedUi(field) ==
    [name |-> field.name,
     widget |-> IF field.type = Some("textarea") THEN Some("textarea")
                ELSE IF field.type = Some("password") THEN Some("password")
                ELSE None,
     placeholder |-> IF TruthyStr(field.placeholder) THEN field.placeholder ELSE None,
     enumOptions |-> IF field.type = Some("select") THEN field.options ELSE None]

\* interpretedFormMachine.js formJsonToJsonSchema(formJson): { jsonSchema, uiSchema }
I_formJsonToJsonSchema(formJson) ==
    [jsonSchema |->
        [title |-> IF TruthyStr(I_action.label) THEN Get(I_action.label) ELSE "Form",
         type |-> "object",
         properties |-> [i \in 1..Len(formJson) |->
                            [name |-> formJson[i].name,
                             prop |-> InterpretedProp(formJson[i])]],
         required |-> RequiredNames(formJson)],
     uiSchema |-> [i \in 1..Len(formJson) |-> InterpretedUi(formJson[i])]]

\* the shared module's formJsonToUiSchema(formJson): a VerticalLayout of one
\* Control per field
formJsonToUiSchema(formJson) ==
    [type |-> "VerticalLayout",
     elements |-> [i \in 1..Len(formJson) |->
        [type |-> "Control",
         scope |-> "#/properties/" \o formJson[i].name,
         placeholder |-> IF TruthyStr(formJson[i].placeholder)
                         THEN formJson[i].placeholder ELSE None,
         multi |-> formJson[i].type = Some("textarea")]]]

(***************************************************************************)
(* The JSON Schema engine (Ajv with allErrors: true and ajv-formats), as   *)
(* far as the compiled schemas use it: an object schema with properties    *)
(* and required; per property type, enum, oneOf (of const branches),       *)
(* maximum, minimum, maxLength, minLength, pattern and format.             *)
(***************************************************************************)
AjvError(path, keyword, missing, limit, format, message) ==
    [instancePath |-> path, keyword |-> keyword, missingProperty |-> missing,
     limit |-> limit, format |-> format, message |-> message]

\* the JSON pointer of a top-level property
InstancePath(name) == "/" \o name

\* the data-type check of the "type" keyword
AjvTypeOk(type, v) ==
    CASE type = "string" -> v.t = "string"
      [] type = "number" -> v.t = "number"
      [] type = "integer" -> v.t = "number"   \* every number drawn is an integer
      [] type = "boolean" -> v.t = "boolean"
      [] OTHER -> TRUE

\* RegExp(pattern).test(s) for the patterns the definitions use
PatternTest(pattern, s) ==
    CASE pattern = "^a+$" -> s # <<>> /\ \A i \in 1..Len(s) : s[i] = "a"
      [] OTHER -> TRUE

\* s[from..to] is one or more non-empty dot-separated runs of plain characters
DotAtoms(s, from, to) ==
    /\ from <= to
    /\ s[from] # "." /\ s[to] # "."
    /\ \A i \in from..to : ~IsSpace(s[i]) /\ s[i] # "@"
    /\ \A i \in from..(to - 1) : ~(s[i] = "." /\ s[i + 1] = ".")

\* the "email" format of ajv-formats (over letters, digits, '.', '@', ' ')
AjvEmailFormat(s) ==
    \E i \in 1..Len(s) :
        /\ s[i] = "@"
        /\ DotAtoms(s, 1, i - 1)
        /\ DotAtoms(s, i + 1, Len(s))
        /\ \E j \in (i + 1)..Len(s) : s[j] = "."

AjvFormatOk(format, s) ==
    CASE format = "email" -> AjvEmailFormat(s)
      [] OTHER -> TRUE

\* the errors of the oneOf keyword over { const } branches: one error per
\* branch that fails, then the oneOf error, unless exactly one branch passes
RECURSIVE AjvConstErrors(_, _, _)
AjvConstErrors(path, consts, v) ==
    IF consts = <<>> THEN <<>>
    ELSE (IF Head(consts) = v THEN <<>>
          ELSE <<AjvError(path, "const", None, None, None, "must be equal to constant")>>)
            \o AjvConstErrors(path, Tail(consts), v)

AjvOneOfErrors(path, consts, v) ==
    IF Cardinality({k \in 1..Len(consts) : consts[k] = v}) = 1 THEN <<>>
    ELSE AjvConstErrors(path, consts, v)
            \o <<AjvError(path, "oneOf", None, None, None,
                          "must match exactly one schema in oneOf")>>

\* the errors of one property's value, in the order Ajv reports them: the
\* type, then the keywords that apply to every type (enum, oneOf), then the
\* keywords of the value's type
AjvPropErrors(name, prop, v) ==
    LET path == InstancePath(name)
        type == IF Has(prop.type) THEN Get(prop.type) ELSE "any"
        typeErr ==
            IF AjvTypeOk(type, v) THEN <<>>
            ELSE <<AjvError(path, "type", None, None, None, "must be " \o type)>>
        strErrs ==
            IF v.t # "string" THEN <<>>
            ELSE (IF Has(prop.maxLength) /\ Len(v.s) > Get(prop.maxLength)
                  THEN <<AjvError(path, "maxLength", None, prop.maxLength, None,
                            "must NOT have more than " \o NumStr(Get(prop.maxLength))
                                \o " characters")>>
                  ELSE <<>>)
              \o (IF Has(prop.minLength) /\ Len(v.s) < Get(prop.minLength)
                  THEN <<AjvError(path, "minLength", None, prop.minLength, None,
                            "must NOT have fewer than " \o NumStr(Get(prop.minLength))
                                \o " characters")>>
                  ELSE <<>>)
              \o (IF Has(prop.pattern) /\ ~PatternTest(Get(prop.pattern), v.s)
                  THEN <<AjvError(path, "pattern", None, None, None,
                            "must match pattern \"" \o Get(prop.pattern) \o "\"")>>
                  ELSE <<>>)
              \o (IF Has(prop.format) /\ ~AjvFormatOk(Get(prop.format), v.s)
                  THEN <<AjvError(path, "format", None, None, prop.format,
                            "must match format \"" \o Get(prop.format) \o "\"")>>
                  ELSE <<>>)
        numErrs ==
            IF v.t # "number" THEN <<>>
            ELSE (IF Has(prop.maximum) /\ v.n > Get(prop.maximum)
                  THEN <<AjvError(path, "maximum", None, prop.maximum, None,
                            "must be <= " \o NumStr(Get(prop.maximum)))>>
                  ELSE <<>>)
              \o (IF Has(prop.minimum) /\ v.n < Get(prop.minimum)
                  THEN <<AjvError(path, "minimum", None, prop.minimum, None,
                            "must be >= " \o NumStr(Get(prop.minimum)))>>
                  ELSE <<>>)
        enumErrs ==
            IF Has(prop.enum)
               /\ ~\E k \in 1..Len(Get(prop.enum)) : Get(prop.enum)[k] = v
            THEN <<AjvError(path, "enum", None, None, None,
                      "must be equal to one of the allowed values")>>
            ELSE <<>>
        oneOfErrs ==
            IF Has(prop.oneOf) THEN AjvOneOfErrors(path, Get(prop.oneOf), v) ELSE <<>>
    IN  typeErr \o enumErrs \o oneOfErrs \o numErrs \o strErrs

\* the "required" keyword: one error per listed property that is undefined
RECURSIVE AjvRequiredErrors(_, _)
AjvRequiredErrors(required, data) ==
    IF required = <<>> THEN <<>>
    ELSE (IF Lookup(data, Head(required)) = Undefined
          THEN <<AjvError("", "required", Some(Head(required)), None, None,
                    "must have required property '" \o Head(required) \o "'")>>
          ELSE <<>>)
            \o AjvRequiredErrors(Tail(required), data)

\* the "properties" keyword: each defined property against its schema
RECURSIVE AjvPropertiesErrors(_, _)
AjvPropertiesErrors(properties, data) ==
    IF properties = <<>> THEN <<>>
    ELSE (IF Lookup(data, Head(properties).name) = Undefined THEN <<>>
          ELSE AjvPropErrors(Head(properties).name, Head(properties).prop,
                             data[Head(properties).name]))
            \o AjvPropertiesErrors(Tail(properties), data)

\* validate(data) of a compiled object schema: validate.errors (empty: valid)
AjvValidate(schema, data) ==
    AjvRequiredErrors(schema.required, data)
        \o AjvPropertiesErrors(schema.properties, data)

\* the data after validate(data), had Ajv been created with coerceTypes: a
\* number under a property of type string is replaced by its string
AjvDataAfter_coerceTypes(schema, data) ==
    [k \in DOMAIN data |->
        IF /\ data[k].t = "number"
           /\ \E i \in 1..Len(schema.properties) :
                    /\ schema.properties[i].name = k
                    /\ schema.properties[i].prop.type = Some("string")
        THEN StrV(NumChars(data[k].n))
        ELSE data[k]]

\* the data after validate(data): every Ajv instance is created without
\* coerceTypes, useDefaults and removeAdditional, so the compiled function
\* reads the data and assigns only to validate.errors
AjvDataAfter(schema, data) == data

(***************************************************************************)
(* validators.js: validateWithAJV and formatErrorMessage                   *)
(***************************************************************************)
\* the characters U+2265 and U+2264 of the message templates
GreaterEqualSign == "{U+2265}"
LessEqualSign == "{U+2264}"

\* err.instancePath.replace(/^\//, ''): the path without its leading slash
StripSlash(path, formJson) ==
    IF path = "" THEN ""
    ELSE CHOOSE name \in FieldNames(formJson) : InstancePath(name) = path

\* fieldDef?.label || err.instancePath
LabelOrPath(fieldDef, path) ==
    IF Has(fieldDef) /\ TruthyStr(Get(fieldDef).label)
    THEN Get(Get(fieldDef).label)
    ELSE path

\* the switch of formatErrorMessage on err.keyword
MessageFor(err, label) ==
        CASE err.keyword = "required" ->
                Get(err.missingProperty) \o " is required"
          [] err.keyword = "minLength" ->
                label \o " must have at least " \o NumStr(Get(err.limit)) \o " characters"
          [] err.keyword = "format" ->
                label \o " must be a valid " \o Get(err.format)
          [] err.keyword = "minimum" ->
                label \o " must be " \o GreaterEqualSign \o " " \o NumStr(Get(err.limit))
          [] err.keyword = "maximum" ->
                label \o " must be " \o LessEqualSign \o " " \o NumStr(Get(err.limit))
          [] err.keyword = "enum" ->
                label \o " must be one of the allowed values"
          [] OTHER ->
                IF err.message # "" THEN err.message ELSE "Invalid value"

\* validators.js formatErrorMessage(err, formJson)
formatErrorMessage(err, formJson) ==
    MessageFor(err,
        LabelOrPath(FindField(formJson, StripSlash(err.instancePath, formJson)),
                    err.instancePath))

\* the loop of validateWithAJV over validate.errors: the first error of each
\* field is kept
\* err.instancePath.replace(/^\//, '') || err.params?.missingProperty
ErrorField(err, formJson) ==
    IF StripSlash(err.instancePath, formJson) # ""
    THEN StripSlash(err.instancePath, formJson)
    ELSE IF Has(err.missingProperty) THEN Get(err.missingProperty)
    ELSE ""

\* if (field && !errors[field]) errors[field] = formatErrorMessage(err, formJson)
KeepFirst(errors, field, err, formJson) ==
    IF field # "" /\ field \notin DOMAIN errors
    THEN SpreadSet(errors, field, formatErrorMessage(err, formJson))
    ELSE errors

RECURSIVE MapAjvErrors(_, _, _)
MapAjvErrors(errs, formJson, errors) ==
    IF errs = <<>> THEN errors
    ELSE MapAjvErrors(Tail(errs), formJson,
            KeepFirst(errors, ErrorField(Head(errs), formJson), Head(errs), formJson))

\* validators.js validateWithAJV(formValues, formJson)
\* (valid, that is no errors, returns {}: the loop over no errors)
validateWithSchema(schema, formValues, formJson) ==
    IF schema = TypeError THEN TypeError
    ELSE MapAjvErrors(AjvValidate(schema, formValues), formJson, EmptyObj)

\* (a TypeError thrown while the schema is built leaves the function)
validateWithAJV(formValues, formJson) ==
    validateWithSchema(formJsonToValidationSchema(formJson), formValues, formJson)

(***************************************************************************)
(* interpretedFormMachine.js: validateFormValues                           *)
(***************************************************************************)
\* the message prefix taken from the name even when a label is given
LabelOrName_nameOnly(field) == field.name

\* `${label || name}`
LabelOrName(field) ==
    IF TruthyStr(field.label) THEN Get(field.label) ELSE field.name

\* the body of the loop of validateFormValues for one field: None, or the
\* message left in errors[name] when the iteration ends
FieldMessage(field, value) ==
    LET who == LabelOrName(field)
        type == IF Has(field.type) THEN Get(field.type) ELSE "undefined"
        missing ==
            \/ value = Undefined
            \/ value = NullV
            \/ (value.t = "string" /\ Trim(value.s) = <<>>)
        num == ToNumber(value)
        belowMin == Has(field.minimum) /\ num.n < Get(field.minimum)
        aboveMax == Has(field.maximum) /\ num.n > Get(field.maximum)
        tooShort == Has(field.minLength) /\ Len(StringOf(value)) < Get(field.minLength)
        badEmail == field.format = Some("email") /\ ~EmailRegexTest(StringOf(value))
    IN  IF field.required /\ missing
        THEN Some(who \o " is required")
        ELSE IF value = Undefined \/ value = NullV \/ value = EmptyStr
        THEN None
        ELSE IF type \in {"number", "integer"}
        THEN IF num.nan THEN Some(who \o " must be a number")
             ELSE IF aboveMax
                  THEN Some(who \o " must be " \o LessEqualSign \o " "
                                \o NumStr(Get(field.maximum)))
             ELSE IF belowMin
                  THEN Some(who \o " must be " \o GreaterEqualSign \o " "
                                \o NumStr(Get(field.minimum)))
             ELSE None
        ELSE IF badEmail THEN Some(who \o " must be a valid email")
             ELSE IF tooShort
                  THEN Some(who \o " must have at least "
                                \o NumStr(Get(field.minLength)) \o " characters")
             ELSE None

\* interpretedFormMachine.js validateFormValues(formValues, formJson)
RECURSIVE ValidateFields(_, _, _)
ValidateFields(formValues, formJson, errors) ==
    IF formJson = <<>> THEN errors
    ELSE LET field == Head(formJson)
             msg == FieldMessage(field, Lookup(formValues, field.name))
         IN  ValidateFields(formValues, Tail(formJson),
                IF Has(msg) THEN SpreadSet(errors, field.name, Get(msg)) ELSE errors)

validateFormValues(formValues, formJson) ==
    ValidateFields(formValues, formJson, EmptyObj)

(***************************************************************************)
(* Events and macrostep results                                            *)
(***************************************************************************)
\* a CHANGE event may lack its name: ev.name is then undefined, and used as
\* a computed key it is the key "undefined"
KeyOf(optName) == IF Has(optName) THEN Get(optName) ELSE "undefined"

\* the result of processing one event to completion
\*   entered:   the state nodes entered, in order (transient ones included)
\*   validated: the validator calls made, each [values, outcome]
\*   invoked:   the submit-handler calls made, each the values passed
StepResult(st, c, pend, entered, validated, invoked) ==
    [state |-> st, ctx |-> c, pending |-> pend, handled |-> TRUE,
     entered |-> entered, validated |-> validated, invoked |-> invoked]

\* an event with no transition sends the machine back to idle
Ignored_toIdle(st, c, pend) ==
    [state |-> "idle", ctx |-> c, pending |-> pend, handled |-> FALSE,
     entered |-> <<>>, validated |-> <<>>, invoked |-> <<>>]

\* an event with no transition in the current state changes nothing
Ignored(st, c, pend) ==
    [state |-> st, ctx |-> c, pending |-> pend, handled |-> FALSE,
     entered |-> <<>>, validated |-> <<>>, invoked |-> <<>>]

Validation(values, outcome) == [values |-> values, outcome |-> outcome]

\* an invoked service: its name and the values it was started with
Invoke(src, arg) == [src |-> src, arg |-> arg]

(***************************************************************************)
(* formMachineFactory.js: createFormMachine(action, submitFn)              *)
(***************************************************************************)
\* buildInitialValues without the else branch: a field with no default gets
\* no entry
RECURSIVE buildInitialValues_defaultsOnly(_)
buildInitialValues_defaultsOnly(formJson) ==
    IF formJson = <<>> THEN EmptyObj
    ELSE LET field == formJson[Len(formJson)]
             rest == buildInitialValues_defaultsOnly(
                        SubSeq(formJson, 1, Len(formJson) - 1))
         IN  IF Has(field.default)
             THEN SpreadSet(rest, field.name, Get(field.default))
             ELSE rest

\* buildInitialValues(formJson)
RECURSIVE buildInitialValues(_)
buildInitialValues(formJson) ==
    IF formJson = <<>> THEN EmptyObj
    ELSE LET field == formJson[Len(formJson)]
             rest == buildInitialValues(SubSeq(formJson, 1, Len(formJson) - 1))
         IN  SpreadSet(rest, field.name,
                IF Has(field.default) THEN Get(field.default)
                ELSE IF field.type = Some("boolean") THEN BoolV(FALSE)
                ELSE EmptyStr)

\* the machine's initial context
F_context(act) ==
    [form |-> buildInitialValues(act.formJson), errors |-> EmptyObj,
     submitting |-> FALSE, result |-> None, serverError |-> None]

F_assignField(c, ev) ==
    [c EXCEPT !.form = SpreadSet(c.form, KeyOf(ev.name), ev.value)]

F_clearFieldError(c, ev) ==
    [c EXCEPT !.errors = DeleteKey(c.errors, KeyOf(ev.name))]

F_runValidation(c, act) ==
    [c EXCEPT !.errors = validateWithAJV(c.form, act.formJson)]

\* prefillForm that replaces the form by the event's data
F_prefillForm_replaces(c, ev) ==
    [c EXCEPT !.form = ev.data]

F_prefillForm(c, ev) ==
    [c EXCEPT !.form = SpreadMerge(c.form, ev.data)]

\* resetForm that leaves the result of the last submission in place
F_resetForm_keepsResult(c, act) ==
    [c EXCEPT !.form = buildInitialValues(act.formJson), !.errors = EmptyObj,
              !.serverError = None]

F_resetForm(c, act) ==
    [c EXCEPT !.form = buildInitialValues(act.formJson), !.errors = EmptyObj,
              !.result = None, !.serverError = None]

F_markSubmitting(c) == [c EXCEPT !.submitting = TRUE]

\* clearSubmitting that leaves the flag set
F_clearSubmitting_keepsFlag(c) == c

F_clearSubmitting(c) == [c EXCEPT !.submitting = FALSE]

F_assignResult(c, ev) == [c EXCEPT !.result = Some(ev.data)]

\* serverError: ev.data?.message || 'Submission failed'
F_assignServerError(c, ev) ==
    [c EXCEPT !.serverError =
        IF Has(ev.data) /\ TruthyStr(Get(ev.data).message)
        THEN Get(ev.data).message
        ELSE Some("Submission failed")]

F_clearServerError(c) == [c EXCEPT !.serverError = None]

\* guards.isValid
F_isValid(c) == NoKeys(c.errors)

\* services.callSubmitFn: the values handed to submitFn
F_callSubmitFn(c) == c.form

\* entry of editing
F_enterEditing(c) == F_clearServerError(c)

\* entry of submitting
F_enterSubmitting(c) == F_markSubmitting(c)

\* validating with its guard dropped: every SUBMIT goes on to submitting
F_validatingAlways_unguarded(c) == "submitting"

\* validating without its fallback transition: invalid values rest there
F_validatingAlways_noFallback(c) == IF F_isValid(c) THEN "submitting" ELSE "validating"

\* states.validating.always: the target the transient state resolves to
F_validatingAlways(c) == IF F_isValid(c) THEN "submitting" ELSE "editing"

\* submitting is entered with context c2: the service is invoked with it
F_invoke(ran, c2, arg) ==
    StepResult("submitting", c2, Some(Invoke("callSubmitFn", arg)),
               <<"validating", "submitting">>, ran, <<arg>>)

\* validating resolved to target with context c1 (errors already assigned)
F_settle(ran, c1, target) ==
    IF target = "submitting"
    THEN F_invoke(ran, F_enterSubmitting(c1), F_callSubmitFn(F_enterSubmitting(c1)))
    ELSE StepResult(target, F_enterEditing(c1), None, <<"validating", target>>,
                    ran, <<>>)

\* validating is entered with context c1, after runValidation on values
F_validating(values, c1) ==
    F_settle(<<Validation(values, c1.errors)>>, c1, F_validatingAlways(c1))

\* SUBMIT in editing: runValidation, then validating's always transitions
F_submit(act, c) == F_validating(c.form, F_runValidation(c, act))

\* the transitions of the machine: one event processed to completion
F_transition(act, st, c, pend, ev) ==
    CASE st = "idle" /\ ev.type = "OPEN" ->
            StepResult("editing", F_enterEditing(c), None, <<"editing">>, <<>>, <<>>)
      [] st = "idle" /\ ev.type = "PREFILL" ->
            StepResult("editing", F_enterEditing(F_prefillForm(c, ev)), None,
                       <<"editing">>, <<>>, <<>>)
      [] st = "editing" /\ ev.type = "CHANGE" ->
            StepResult("editing", F_clearFieldError(F_assignField(c, ev), ev), None,
                       <<>>, <<>>, <<>>)
      [] st = "editing" /\ ev.type = "SUBMIT" -> F_submit(act, c)
      [] st = "editing" /\ ev.type = "RESET" ->
            StepResult("idle", F_resetForm(c, act), None, <<"idle">>, <<>>, <<>>)
      [] st = "submitting" /\ ev.type = "done.invoke" ->
            StepResult("success", F_clearSubmitting(F_assignResult(c, ev)), None,
                       <<"success">>, <<>>, <<>>)
      [] st = "submitting" /\ ev.type = "error.platform" ->
            StepResult("editing",
                       F_enterEditing(F_clearSubmitting(F_assignServerError(c, ev))),
                       None, <<"editing">>, <<>>, <<>>)
      [] st = "success" /\ ev.type = "OPEN" ->
            StepResult("editing", F_enterEditing(F_resetForm(c, act)), None,
                       <<"editing">>, <<>>, <<>>)
      [] st = "success" /\ ev.type = "CLOSE" ->
            StepResult("idle", c, None, <<"idle">>, <<>>, <<>>)
      [] OTHER -> Ignored(st, c, pend)

(***************************************************************************)
(* interpretedFormMachine.js: createFormMachine(action)                    *)
(***************************************************************************)
\* the loop that builds initialForm
RECURSIVE I_initialForm(_)
I_initialForm(formJson) ==
    IF formJson = <<>> THEN EmptyObj
    ELSE LET f == formJson[Len(formJson)]
             rest == I_initialForm(SubSeq(formJson, 1, Len(formJson) - 1))
         IN  SpreadSet(rest, f.name,
                IF Has(f.default) THEN Get(f.default)
                ELSE IF f.type = Some("boolean") THEN BoolV(FALSE)
                ELSE IF f.type = Some("number") THEN NullV
                ELSE EmptyStr)

I_context(act) ==
    [form |-> I_initialForm(act.formJson), errors |-> EmptyObj,
     submitting |-> FALSE, result |-> None, lastErrorMessage |-> None]

\* if (!ev || !ev.name) return {}
I_assignField(c, ev) ==
    IF ~TruthyStr(ev.name) THEN c
    ELSE [c EXCEPT !.form = SpreadSet(c.form, Get(ev.name), ev.value)]

\* clearFieldError that clears every field's error
I_clearFieldError_clearsAll(c, ev) ==
    IF ~TruthyStr(ev.name) THEN c ELSE [c EXCEPT !.errors = EmptyObj]

I_clearFieldError(c, ev) ==
    IF ~TruthyStr(ev.name) THEN c
    ELSE [c EXCEPT !.errors = DeleteKey(c.errors, Get(ev.name))]

I_validateAssign(c, act) ==
    [c EXCEPT !.errors = validateFormValues(c.form, act.formJson)]

I_markSubmitting(c) == [c EXCEPT !.submitting = TRUE]

I_clearSubmitting(c) == [c EXCEPT !.submitting = FALSE]

\* assignResult that clears the error message and forgets the payload
I_assignResult_dropsPayload(c, ev) == [c EXCEPT !.lastErrorMessage = None]

I_assignResult(c, ev) ==
    [c EXCEPT !.result = Some(ev.data), !.lastErrorMessage = None]

\* ev.data && ev.data.message ? ev.data.message : String(ev.data)
I_assignSubmitError(c, ev) ==
    [c EXCEPT !.lastErrorMessage =
        IF Has(ev.data) /\ TruthyStr(Get(ev.data).message)
        THEN Get(ev.data).message
        ELSE IF Has(ev.data) THEN Some("[object Object]")
        ELSE Some("undefined")]

I_clearResult(c) == [c EXCEPT !.result = None, !.lastErrorMessage = None]

\* guards.noErrors
I_noErrors(c) == NoKeys(c.errors)

\* entry of editing
I_enterEditing(c) == I_clearResult(c)

\* states.validating.always: the target the transient state resolves to
I_validatingAlways(c) == IF I_noErrors(c) THEN "submitting" ELSE "editing"

\* services.mockSubmit reads ctx.form when the promise is created
I_mockSubmitArg(c) == c.form

\* SUBMIT in editing or failure: validateAssign, then validating's always
I_invoke(ran, c2, arg) ==
    StepResult("submitting", c2, Some(Invoke("mockSubmit", arg)),
               <<"validating", "submitting">>, ran, <<arg>>)

\* validating resolved to target with context c1; the transition to
\* submitting carries the action markSubmitting
I_settle(ran, c1, target) ==
    IF target = "submitting"
    THEN I_invoke(ran, I_markSubmitting(c1), I_mockSubmitArg(I_markSubmitting(c1)))
    ELSE StepResult(target, I_enterEditing(c1), None, <<"validating", target>>,
                    ran, <<>>)

I_validating(values, c1) ==
    I_settle(<<Validation(values, c1.errors)>>, c1, I_validatingAlways(c1))

I_submit(act, c) == I_validating(c.form, I_validateAssign(c, act))

\* the transitions of the machine with no transition out of success
I_transition_successHalts(act, st, c, pend, ev) ==
    CASE st = "idle" /\ ev.type = "OPEN" ->
            StepResult("editing", I_enterEditing(c), None, <<"editing">>, <<>>, <<>>)
      [] st = "editing" /\ ev.type = "CHANGE" ->
            StepResult("editing", I_clearFieldError(I_assignField(c, ev), ev), None,
                       <<>>, <<>>, <<>>)
      [] st \in {"editing", "failure"} /\ ev.type = "SUBMIT" -> I_submit(act, c)
      [] st = "submitting" /\ ev.type = "done.invoke" ->
            StepResult("success", I_clearSubmitting(I_assignResult(c, ev)), None,
                       <<"success">>, <<>>, <<>>)
      [] st = "submitting" /\ ev.type = "error.platform" ->
            StepResult("failure", I_clearSubmitting(I_assignSubmitError(c, ev)), None,
                       <<"failure">>, <<>>, <<>>)
      [] st = "failure" /\ ev.type = "CHANGE" ->
            StepResult("failure", I_clearFieldError(I_assignField(c, ev), ev), None,
                       <<>>, <<>>, <<>>)
      [] OTHER -> Ignored(st, c, pend)

I_transition(act, st, c, pend, ev) ==
    CASE st = "idle" /\ ev.type = "OPEN" ->
            StepResult("editing", I_enterEditing(c), None, <<"editing">>, <<>>, <<>>)
      [] st = "editing" /\ ev.type = "CHANGE" ->
            StepResult("editing", I_clearFieldError(I_assignField(c, ev), ev), None,
                       <<>>, <<>>, <<>>)
      [] st \in {"editing", "failure"} /\ ev.type = "SUBMIT" -> I_submit(act, c)
      [] st = "submitting" /\ ev.type = "done.invoke" ->
            StepResult("success", I_clearSubmitting(I_assignResult(c, ev)), None,
                       <<"success">>, <<>>, <<>>)
      [] st = "submitting" /\ ev.type = "error.platform" ->
            StepResult("failure", I_clearSubmitting(I_assignSubmitError(c, ev)), None,
                       <<"failure">>, <<>>, <<>>)
      [] st = "success" /\ ev.type = "OPEN" ->
            StepResult("editing", I_enterEditing(c), None, <<"editing">>, <<>>, <<>>)
      [] st = "failure" /\ ev.type = "CHANGE" ->
            StepResult("failure", I_clearFieldError(I_assignField(c, ev), ev), None,
                       <<>>, <<>>, <<>>)
      [] OTHER -> Ignored(st, c, pend)

(***************************************************************************)
(* The WebSocket session machine: the shared formMachineDefinition with    *)
(* the session host's actions, guard and service                           *)
(***************************************************************************)
\* formMachineDefinition.context with formId: action.id
S_context(act) ==
    [formId |-> Some(act.id), formData |-> EmptyObj, errors |-> EmptyObj,
     serverErrors |-> EmptyObj, isSubmitting |-> FALSE, result |-> None]

\* formData: ev.initialData || {}
S_initForm(c, ev) ==
    [c EXCEPT !.formData = IF Has(ev.initialData) THEN Get(ev.initialData) ELSE EmptyObj]

S_updateField(c, ev) ==
    [c EXCEPT !.formData = SpreadSet(c.formData, KeyOf(ev.field), ev.value)]

\* clearFieldError that leaves the error of the edited field in place
S_clearFieldError_keepsError(c, ev) == c

S_clearFieldError(c, ev) ==
    [c EXCEPT !.errors = DeleteKey(c.errors, KeyOf(ev.field))]

S_setSubmitting(c) == [c EXCEPT !.isSubmitting = TRUE]

S_clearSubmitting(c) == [c EXCEPT !.isSubmitting = FALSE]

S_setResult(c, ev) == [c EXCEPT !.result = Some(ev.data)]

\* serverErrors: ev.data?.errors || { _form: ev.data?.message || 'Unknown error' }
S_setServerErrors(c, ev) ==
    [c EXCEPT !.serverErrors =
        IF Has(ev.data) /\ Has(Get(ev.data).errors) THEN Get(Get(ev.data).errors)
        ELSE IF Has(ev.data) /\ TruthyStr(Get(ev.data).message)
        THEN [k \in {"_form"} |-> Get(Get(ev.data).message)]
        ELSE [k \in {"_form"} |-> "Unknown error"]]

S_resetForm(c) ==
    [c EXCEPT !.formData = EmptyObj, !.errors = EmptyObj,
              !.serverErrors = EmptyObj, !.result = None]

\* the precompiled validator of the action: ajv.compile(formJsonToJsonSchema(...))
S_validator(act, data) == AjvValidate(SharedFormJsonToJsonSchema(act.formJson), data)

\* the loop of the guard over validator.errors: the last message of each
\* field is kept
\* err.instancePath.replace('/', '') || err.params.missingProperty
S_errorField(err, formJson) ==
    IF StripSlash(err.instancePath, formJson) # ""
    THEN StripSlash(err.instancePath, formJson)
    ELSE Get(err.missingProperty)

RECURSIVE S_mapErrors(_, _, _)
S_mapErrors(errs, formJson, errors) ==
    IF errs = <<>> THEN errors
    ELSE S_mapErrors(Tail(errs), formJson,
            SpreadSet(errors, S_errorField(Head(errs), formJson), Head(errs).message))

\* guards.isValid, given validator.errors after validator(ctx.formData):
\* the value the guard returns
S_guardValue(errs) == errs = <<>>

\* guards.isValid, given validator.errors: the context after the guard ran
\* (it assigns ctx.errors when the data is invalid, and leaves it alone
\* otherwise)
S_guardContext(act, c, errs) ==
    IF errs = <<>> THEN c
    ELSE [c EXCEPT !.errors = S_mapErrors(errs, act.formJson, EmptyObj)]

\* guards.isValid
S_isValid(act, c) == S_guardValue(S_validator(act, c.formData))

\* services.submitForm: the values handed to action.handler
S_submitForm(c) == c.formData

\* states.validating.always: the target the transient state resolves to,
\* given the value of the guard
S_validatingAlways(valid) == IF valid THEN "submitting" ELSE "editing"

S_invoke(ran, c2, arg) ==
    StepResult("submitting", c2, Some(Invoke("submitForm", arg)),
               <<"validating", "submitting">>, ran, <<arg>>)

\* validating resolved to target with context c1 (as the guard left it)
S_settle(ran, c1, target) ==
    IF target = "submitting"
    THEN S_invoke(ran, S_setSubmitting(c1), S_submitForm(S_setSubmitting(c1)))
    ELSE StepResult(target, c1, None, <<"validating", target>>, ran, <<>>)

\* the guard ran on context c and left validator.errors = errs
S_guarded(act, c, errs) ==
    S_settle(<<Validation(c.formData, S_mapErrors(errs, act.formJson, EmptyObj))>>,
             S_guardContext(act, c, errs),
             S_validatingAlways(S_guardValue(errs)))

\* entering validating (from SUBMIT or RETRY): the always transitions
S_validate(act, c) == S_guarded(act, c, S_validator(act, c.formData))

S_transition(act, st, c, pend, ev) ==
    CASE st = "idle" /\ ev.type = "INIT" ->
            StepResult("editing", S_initForm(c, ev), None, <<"editing">>, <<>>, <<>>)
      [] st = "editing" /\ ev.type = "CHANGE" ->
            StepResult("editing", S_clearFieldError(S_updateField(c, ev), ev), None,
                       <<>>, <<>>, <<>>)
      [] (st = "editing" /\ ev.type = "SUBMIT") \/ (st = "error" /\ ev.type = "RETRY") ->
            S_validate(act, c)
      [] st = "submitting" /\ ev.type = "done.invoke" ->
            StepResult("success", S_clearSubmitting(S_setResult(c, ev)), None,
                       <<"success">>, <<>>, <<>>)
      [] st = "submitting" /\ ev.type = "error.platform" ->
            StepResult("error", S_clearSubmitting(S_setServerErrors(c, ev)), None,
                       <<"error">>, <<>>, <<>>)
      [] st = "success" /\ ev.type = "RESET" ->
            StepResult("idle", S_resetForm(c), None, <<"idle">>, <<>>, <<>>)
      [] st = "error" /\ ev.type = "CHANGE" ->
            StepResult("editing", S_clearFieldError(S_updateField(c, ev), ev), None,
                       <<"editing">>, <<>>, <<>>)
      [] OTHER -> Ignored(st, c, pend)

(***************************************************************************)
(* frontend App.jsx: the client machine createFormMachine(actionId)        *)
(***************************************************************************)
C_context(act) ==
    [actionId |-> act.id, jsonSchema |-> None, uiSchema |-> None,
     formData |-> EmptyObj, errors |-> <<>>, serverErrors |-> EmptyObj,
     isSubmitting |-> FALSE, result |-> None]

C_setSchemas(c, ev) ==
    [c EXCEPT !.jsonSchema = Some(ev.data.jsonSchema),
              !.uiSchema = Some(ev.data.uiSchema),
              !.formData = EmptyObj]

\* formData: ev.data, errors: ev.errors || {}
C_updateFormData(c, ev) ==
    [c EXCEPT !.formData = ev.data,
              !.errors = IF Has(ev.errors) THEN Get(ev.errors) ELSE <<>>]

C_setSubmitting(c) == [c EXCEPT !.isSubmitting = TRUE]

C_clearSubmitting(c) == [c EXCEPT !.isSubmitting = FALSE]

\* result: ev.data.data
C_setResult(c, ev) == [c EXCEPT !.result = Some(ev.data.data)]

\* serverErrors: ev.data?.errors || { _form: 'Submission failed' }
C_setServerErrors(c, ev) ==
    [c EXCEPT !.serverErrors =
        IF Has(ev.data) /\ Has(Get(ev.data).errors) THEN Get(Get(ev.data).errors)
        ELSE [k \in {"_form"} |-> "Submission failed"]]

\* serverErrors: { _form: ev.data?.message || 'Failed to load form' }
C_setLoadError(c, ev) ==
    [c EXCEPT !.serverErrors =
        IF Has(ev.data) /\ TruthyStr(Get(ev.data).message)
        THEN [k \in {"_form"} |-> Get(Get(ev.data).message)]
        ELSE [k \in {"_form"} |-> "Failed to load form"]]

C_resetForm(c) ==
    [c EXCEPT !.formData = EmptyObj, !.errors = <<>>,
              !.serverErrors = EmptyObj, !.result = None]

\* services.submitForm: the body of the POST request
C_submitForm(c) == c.formData

\* the client machine with CHANGE also accepted while submitting
C_transition_changeWhileSubmitting(act, st, c, pend, ev) ==
    CASE st = "loading" /\ ev.type = "done.invoke" ->
            StepResult("editing", C_setSchemas(c, ev), None, <<"editing">>, <<>>, <<>>)
      [] st = "loading" /\ ev.type = "error.platform" ->
            StepResult("error", C_setLoadError(c, ev), None, <<"error">>, <<>>, <<>>)
      [] st = "editing" /\ ev.type = "CHANGE" ->
            StepResult("editing", C_updateFormData(c, ev), None, <<>>, <<>>, <<>>)
      [] st = "submitting" /\ ev.type = "CHANGE" ->
            StepResult("submitting", C_updateFormData(c, ev), pend, <<>>, <<>>, <<>>)
      [] st = "editing" /\ ev.type = "SUBMIT" ->
            StepResult("submitting", C_setSubmitting(c),
                       Some(Invoke("submitForm", C_submitForm(C_setSubmitting(c)))),
                       <<"submitting">>, <<>>, <<C_submitForm(C_setSubmitting(c))>>)
      [] st = "submitting" /\ ev.type = "done.invoke" ->
            StepResult("success", C_clearSubmitting(C_setResult(c, ev)), None,
                       <<"success">>, <<>>, <<>>)
      [] st = "submitting" /\ ev.type = "error.platform" ->
            StepResult("editing", C_clearSubmitting(C_setServerErrors(c, ev)), None,
                       <<"editing">>, <<>>, <<>>)
      [] st = "success" /\ ev.type = "RESET" ->
            StepResult("editing", C_resetForm(c), None, <<"editing">>, <<>>, <<>>)
      [] st = "success" /\ ev.type = "NEW" ->
            StepResult("loading", c, Some(Invoke("loadSchema", EmptyObj)), <<"loading">>, <<>>, <<>>)
      [] st = "error" /\ ev.type = "RETRY" ->
            StepResult("loading", c, Some(Invoke("loadSchema", EmptyObj)), <<"loading">>, <<>>, <<>>)
      [] OTHER -> Ignored(st, c, pend)

C_transition(act, st, c, pend, ev) ==
    CASE st = "loading" /\ ev.type = "done.invoke" ->
            StepResult("editing", C_setSchemas(c, ev), None, <<"editing">>, <<>>, <<>>)
      [] st = "loading" /\ ev.type = "error.platform" ->
            StepResult("error", C_setLoadError(c, ev), None, <<"error">>, <<>>, <<>>)
      [] st = "editing" /\ ev.type = "CHANGE" ->
            StepResult("editing", C_updateFormData(c, ev), None, <<>>, <<>>, <<>>)
      [] st = "editing" /\ ev.type = "SUBMIT" ->
            StepResult("submitting", C_setSubmitting(c),
                       Some(Invoke("submitForm", C_submitForm(C_setSubmitting(c)))),
                       <<"submitting">>, <<>>, <<C_submitForm(C_setSubmitting(c))>>)
      [] st = "submitting" /\ ev.type = "done.invoke" ->
            StepResult("success", C_clearSubmitting(C_setResult(c, ev)), None,
                       <<"success">>, <<>>, <<>>)
      [] st = "submitting" /\ ev.type = "error.platform" ->
            StepResult("editing", C_clearSubmitting(C_setServerErrors(c, ev)), None,
                       <<"editing">>, <<>>, <<>>)
      [] st = "success" /\ ev.type = "RESET" ->
            StepResult("editing", C_resetForm(c), None, <<"editing">>, <<>>, <<>>)
      [] st = "success" /\ ev.type = "NEW" ->
            StepResult("loading", c, Some(Invoke("loadSchema", EmptyObj)), <<"loading">>, <<>>, <<>>)
      [] st = "error" /\ ev.type = "RETRY" ->
            StepResult("loading", c, Some(Invoke("loadSchema", EmptyObj)), <<"loading">>, <<>>, <<>>)
      [] OTHER -> Ignored(st, c, pend)

\* POST /api/actions/:id/validate: the reply for a request body (errors is
\* {} here where the reply carries null)
ValidateRoute(formJson, body) ==
    [valid |-> S_validator([formJson |-> formJson], body) = <<>>,
     errors |-> S_mapErrors(S_validator([formJson |-> formJson], body), formJson, EmptyObj)]

(***************************************************************************)
(* The sessions checked: definitions, inputs, and the interpreter          *)
(***************************************************************************)
Variants == {"factory", "interpreted", "server", "client"}

ab == <<"a", "b">>
abcd == <<"a", "b", "c", "d">>
fail == <<"f", "a", "i", "l">>
user == <<"u", "s", "e", "r">>
admin == <<"a", "d", "m", "i", "n">>

\* the definition of the username scenario: no type, a label, required,
\* minLength 3
UsernameField ==
    [Field("username") EXCEPT
        !.label = Some("Username"), !.required = TRUE, !.minLength = Some(3)]

\* the registry's username field: the same with type 'string'
UsernameString == [UsernameField EXCEPT !.type = Some("string")]

\* the registry's role field
RoleField ==
    [Field("role") EXCEPT
        !.type = Some("select"), !.label = Some("Role"), !.required = TRUE,
        !.options = Some(<<Option(StrV(user), "User"), Option(StrV(admin), "Admin")>>),
        !.default = Some(StrV(user))]

ScenarioAction == [id |-> "scenario", label |-> "Scenario", formJson |-> <<UsernameField>>]

CreateUserAction ==
    [id |-> "createUser", label |-> "Create User",
     formJson |-> <<UsernameString, RoleField>>]

Actions == {ScenarioAction, CreateUserAction}

\* the values a CHANGE event carries; 'fail' is the username the mock
\* service of the interpreted machine rejects
ChangeValues(var) ==
    IF var = "interpreted" THEN {EmptyStr, StrV(ab), StrV(abcd), StrV(fail)}
    ELSE {EmptyStr, StrV(ab), StrV(abcd), NullV}

\* the CHANGE events drawn: a field of the definition with a value, or an
\* event that lacks its name
ChangeInputs(var, act) ==
    {[name |-> Some(n), value |-> v] :
        n \in FieldNames(act.formJson), v \in ChangeValues(var)}
    \cup {[name |-> None, value |-> StrV(abcd)]}

\* the event types each machine has a transition for in some state
Vocabulary(var) ==
    CASE var = "factory" -> {"OPEN", "PREFILL", "CHANGE", "SUBMIT", "RESET", "CLOSE"}
      [] var = "interpreted" -> {"OPEN", "CHANGE", "SUBMIT"}
      [] var = "server" -> {"INIT", "CHANGE", "SUBMIT", "RESET", "RETRY"}
      [] var = "client" -> {"CHANGE", "SUBMIT", "RESET", "NEW", "RETRY"}

EventTypes ==
    {"OPEN", "PREFILL", "INIT", "CHANGE", "SUBMIT", "RESET", "CLOSE", "RETRY", "NEW",
     "UNKNOWN"}

\* the data a PREFILL or INIT event carries
PrefillData ==
    {EmptyObj, [k \in {"username"} |-> StrV(abcd)], [k \in {"username"} |-> StrV(ab)]}

\* the form data the JSON Forms component reports to the client machine
ClientForms ==
    {EmptyObj, [k \in {"username"} |-> StrV(ab)], [k \in {"username"} |-> StrV(abcd)],
     [k \in {"username", "role"} |-> IF k = "role" THEN StrV(user) ELSE StrV(abcd)]}

Payload(id, data) == [id |-> id, payload |-> data]

\* a rejection: the object the promise rejects with
Rejection(message, errors) == [message |-> message, errors |-> errors]

\* what the opaque submit handler may reject with
RejectionPayloads ==
    {Some(Rejection(Some("duplicate username"), None)), Some(Rejection(None, None))}

\* String.prototype.toLowerCase on the characters drawn
LowerChar(ch) == CASE ch = "F" -> "f" [] ch = "A" -> "a" [] ch = "I" -> "i"
                   [] ch = "L" -> "l" [] OTHER -> ch

\* String(ctx.form.username || '').toLowerCase() === 'fail'
I_mockRejects(form) ==
    LET v == Lookup(form, "username")
        falsy == v \in {Undefined, NullV, EmptyStr, NumV(0), BoolV(FALSE)}
        text == IF falsy THEN <<>> ELSE StringOf(v)
    IN  [i \in 1..Len(text) |-> LowerChar(text[i])] = fail

\* the payloads the invoked service may resolve with
Resolutions(var, act, call) ==
    CASE call.src = "loadSchema" ->
            {[jsonSchema |-> SharedFormJsonToJsonSchema(act.formJson),
              uiSchema |-> formJsonToUiSchema(act.formJson)]}
      [] var = "interpreted" ->
            IF I_mockRejects(call.arg) THEN {} ELSE {Payload("mock-123", call.arg)}
      [] var = "server" -> {Payload("user_1", call.arg)}
      [] var = "client" -> {[success |-> TRUE, data |-> Payload("user_1", call.arg)]}
      [] OTHER -> {Payload("user_1", EmptyObj), Payload("user_2", EmptyObj)}

\* the payloads the invoked service may reject with
Rejections(var, act, call) ==
    CASE call.src = "loadSchema" ->
            {Some(Rejection(Some("Failed to load schema"), None))}
      [] var = "interpreted" ->
            IF I_mockRejects(call.arg)
            THEN {Some(Rejection(Some("Server rejected username \"fail\""), None))}
            ELSE {}
      [] var = "client" ->
            {Some(Rejection(None, Some([k \in {"username"} |-> "must be string"]))),
             Some(Rejection(None, None))}
      [] OTHER -> RejectionPayloads

\* machine.initialState
InitialState(var) == IF var = "client" THEN "loading" ELSE "idle"

InitialContext(var, act) ==
    CASE var = "factory" -> F_context(act)
      [] var = "interpreted" -> I_context(act)
      [] var = "server" -> S_context(act)
      [] var = "client" -> C_context(act)

InitialPending(var) ==
    IF var = "client" THEN Some(Invoke("loadSchema", EmptyObj)) ELSE None

\* machine.transition(state, event) of the session's machine
Transition(var, act, st, c, pend, ev) ==
    CASE var = "factory" -> F_transition(act, st, c, pend, ev)
      [] var = "interpreted" -> I_transition(act, st, c, pend, ev)
      [] var = "server" -> S_transition(act, st, c, pend, ev)
      [] var = "client" -> C_transition(act, st, c, pend, ev)

NoStep(st) ==
    [from |-> st, handled |-> FALSE, entered |-> <<st>>, validated |-> <<>>,
     invoked |-> <<>>, emitted |-> <<>>]

\* what a listener registered with service.onTransition receives
Snapshot(st, c) == [state |-> st, context |-> c]

\* service.start(): the initial state is entered and the listeners notified
Started(st, c) == [NoStep(st) EXCEPT !.emitted = <<Snapshot(st, c)>>]

\* a step that processes no event: the machine is left where it is and no
\* listener is notified
Untouched(st) ==
    [from |-> st, handled |-> FALSE, entered |-> <<>>, validated |-> <<>>,
     invoked |-> <<>>, emitted |-> <<>>]

\* the interpreter never counted as stopped
Stopped_never(s) == FALSE

\* the interpreter was stopped: it processes no further event, and the
\* promise it invoked was cancelled
Stopped(s) == s = "stopped"

NoInput == [fn |-> "none"]

Init ==
    /\ variant \in Variants
    /\ action \in Actions
    /\ state = InitialState(variant)
    /\ ctx = InitialContext(variant, action)
    /\ pending = InitialPending(variant)
    /\ lastEvent = [type |-> "xstate.init"]
    /\ status = "running"
    /\ lastStep = Started(state, ctx)
    /\ vIn = NoInput
    /\ vOut = NoInput
    /\ sessions = <<>>
    /\ validatorErrors = <<>>

\* service.send(ev): the event is processed to completion, and the
\* listeners are notified once, with the state the machine rests in
Send(ev) ==
    LET r == Transition(variant, action, state, ctx, pending, ev)
    IN  /\ state' = r.state
        /\ ctx' = r.ctx
        /\ pending' = r.pending
        /\ lastEvent' = ev
        /\ lastStep' = [from |-> state, handled |-> r.handled, entered |-> r.entered,
                        validated |-> r.validated, invoked |-> r.invoked,
                        emitted |-> <<Snapshot(r.state, r.ctx)>>]
        /\ UNCHANGED <<variant, action, status, vIn, vOut,
                 sessions, validatorErrors>>

\* the settlement of a promise whose interpreter was stopped: nothing is sent
Discard(ev) ==
    /\ pending' = None
    /\ lastEvent' = ev
    /\ lastStep' = Untouched(state)
    /\ UNCHANGED <<variant, action, state, ctx, status, vIn, vOut,
                 sessions, validatorErrors>>

\* the invoked promise settles: the done / error event reaches the machine
\* unless the interpreter was stopped meanwhile
Settle(ev) == IF Stopped(status) THEN Discard(ev) ELSE Send(ev)

OPEN ==
    /\ status = "running"
    /\ "OPEN" \in Vocabulary(variant)
    /\ Send([type |-> "OPEN"])

PREFILL ==
    /\ status = "running"
    /\ "PREFILL" \in Vocabulary(variant)
    /\ \E d \in PrefillData : Send([type |-> "PREFILL", data |-> d])

INIT ==
    /\ status = "running"
    /\ "INIT" \in Vocabulary(variant)
    /\ \E d \in {None} \cup {Some(x) : x \in PrefillData} :
            Send([type |-> "INIT", initialData |-> d])

\* { type: 'CHANGE', name, value }: the factory and interpreted machines
CHANGE ==
    /\ status = "running"
    /\ variant \in {"factory", "interpreted"}
    /\ \E in \in ChangeInputs(variant, action) :
            Send([type |-> "CHANGE", name |-> in.name, value |-> in.value])

\* { type: 'CHANGE', field, value }: the WebSocket session machine
CHANGE_field ==
    /\ status = "running"
    /\ variant = "server"
    /\ \E in \in ChangeInputs(variant, action) :
            Send([type |-> "CHANGE", field |-> in.name, value |-> in.value])

\* { type: 'CHANGE', data, errors }: what handleChange of App.jsx sends, the
\* errors being those JSON Forms computes for the data
CHANGE_data ==
    /\ status = "running"
    /\ variant = "client"
    /\ \E d \in ClientForms :
            Send([type |-> "CHANGE", data |-> d,
                  errors |-> Some(AjvValidate(
                                SharedFormJsonToJsonSchema(action.formJson), d))])

SUBMIT ==
    /\ status = "running"
    /\ "SUBMIT" \in Vocabulary(variant)
    /\ Send([type |-> "SUBMIT"])

RESET ==
    /\ status = "running"
    /\ "RESET" \in Vocabulary(variant)
    /\ Send([type |-> "RESET"])

CLOSE ==
    /\ status = "running"
    /\ "CLOSE" \in Vocabulary(variant)
    /\ Send([type |-> "CLOSE"])

RETRY ==
    /\ status = "running"
    /\ "RETRY" \in Vocabulary(variant)
    /\ Send([type |-> "RETRY"])

NEW_event ==
    /\ status = "running"
    /\ "NEW" \in Vocabulary(variant)
    /\ Send([type |-> "NEW"])

\* an event of a type the machine has no transition for in any state
OTHER_event ==
    /\ status = "running"
    /\ \E t \in EventTypes \ Vocabulary(variant) : Send([type |-> t])

\* socket.on('message') with a message JSON.parse rejects, or one that is
\* no event object: the exception is caught and logged
Malformed ==
    /\ variant = "server"
    /\ status = "running"
    /\ \E kind \in {"unparseable", "not an event"} : lastEvent' = [type |-> kind]
    /\ lastStep' = Untouched(state)
    /\ UNCHANGED <<variant, action, state, ctx, pending, status, vIn, vOut,
                 sessions, validatorErrors>>

\* socket.on('close'): service.stop().  The handler's promise stays in flight.
SocketClose ==
    /\ variant = "server"
    /\ status = "running"
    /\ status' = "stopped"
    /\ lastEvent' = [type |-> "close"]
    /\ lastStep' = Untouched(state)
    /\ UNCHANGED <<variant, action, state, ctx, pending, vIn, vOut,
                 sessions, validatorErrors>>

\* the invoked promise resolves: done.invoke.<id>
HandlerResolves ==
    /\ Has(pending)
    /\ \E r \in Resolutions(variant, action, Get(pending)) :
            Settle([type |-> "done.invoke", data |-> r])

\* the invoked promise rejects: error.platform.<id>
HandlerRejects ==
    /\ Has(pending)
    /\ \E p \in Rejections(variant, action, Get(pending)) :
            Settle([type |-> "error.platform", data |-> p])

Next ==
    \/ OPEN
    \/ PREFILL
    \/ INIT
    \/ CHANGE
    \/ CHANGE_field
    \/ CHANGE_data
    \/ SUBMIT
    \/ RESET
    \/ CLOSE
    \/ RETRY
    \/ NEW_event
    \/ OTHER_event
    \/ Malformed
    \/ SocketClose
    \/ HandlerResolves
    \/ HandlerRejects

Spec == Init /\ [][Next]_vars

\* the sessions with a handler that settles: a promise the machine invoked
\* is eventually resolved or rejected
SpecSettling == Init /\ [][Next]_vars /\ WF_vars(HandlerResolves \/ HandlerRejects)

(***************************************************************************)
(* The validators as pure functions: a field definition and a value are    *)
(* drawn, and each validator is applied to them                            *)
(***************************************************************************)
\* the longest string drawn
MaxLen == 4

Chars == {"a", " ", "@", "."}

RECURSIVE StringsUpTo(_)
StringsUpTo(k) ==
    IF k = 0 THEN {<<>>}
    ELSE LET shorter == StringsUpTo(k - 1)
         IN  shorter \cup {Append(t, ch) : t \in {x \in shorter : Len(x) = k - 1},
                                           ch \in Chars}

\* the values drawn: undefined stands for a key that is absent
TestValues ==
    {StrV(t) : t \in StringsUpTo(MaxLen)}
        \cup {StrV(user), StrV(abcd), StrV(<<"a", "@", "a", ".", "a">>)}
        \cup {NumV(0 - 5), NumV(0), NumV(15), NumV(17), NumV(18), NumV(30),
              NumV(120), NumV(121), NumV(200)}
        \cup {Undefined, NullV, BoolV(TRUE), BoolV(FALSE)}

\* the age field of the createUser action
AgeField ==
    [Field("age") EXCEPT !.type = Some("integer"), !.label = Some("Age"),
                         !.minimum = Some(18), !.maximum = Some(120)]

TestFields ==
    {UsernameField,
     UsernameString,
     RoleField,
     [Field("name") EXCEPT !.type = Some("string"), !.label = Some("Name"),
                           !.required = TRUE],
     [Field("priority") EXCEPT !.type = Some("select"), !.label = Some("Priority"),
        !.options = Some(<<Option(StrV(user), "User"), Option(StrV(admin), "Admin")>>)],
     AgeField,
     [Field("quantity") EXCEPT !.type = Some("integer"), !.label = Some("Quantity"),
                               !.required = TRUE, !.minimum = Some(1)],
     [Field("bio") EXCEPT !.type = Some("textarea"), !.label = Some("Bio"),
                          !.maxLength = Some(3)],
     [Field("code") EXCEPT !.type = Some("string"), !.label = Some("Code"),
                           !.maxLength = Some(3)],
     [Field("tag") EXCEPT !.type = Some("string"), !.label = Some("Tag"),
                          !.pattern = Some("^a+$")],
     [Field("email") EXCEPT !.type = Some("string"), !.format = Some("email"),
                            !.label = Some("Email"), !.required = TRUE,
                            !.minLength = Some(3)],
     [Field("contact") EXCEPT !.type = Some("email"), !.label = Some("Contact")],
     [Field("subscribe") EXCEPT !.type = Some("boolean"), !.label = Some("Subscribe"),
                                !.required = TRUE]}

\* the value map holding the value drawn for the field drawn
ValueMap(in) ==
    IF in.value = Undefined THEN EmptyObj
    ELSE [k \in {in.field.name} |-> in.value]

NoOutput == [fn |-> "none", outcome |-> EmptyObj, values |-> EmptyObj, again |-> EmptyObj]

ValidateInit ==
    /\ vIn \in [field : TestFields, value : TestValues]
    /\ vOut = NoOutput
    /\ variant = "none"
    /\ action = ScenarioAction
    /\ state = "none"
    /\ ctx = EmptyObj
    /\ pending = None
    /\ status = "running"
    /\ lastEvent = [type |-> "none"]
    /\ lastStep = NoStep("none")
    /\ sessions = <<>>
    /\ validatorErrors = <<>>

\* the value map after validateWithAJV(formValues, formJson)
ValuesAfter_validateWithAJV(formValues, formJson) ==
    IF formJsonToValidationSchema(formJson) = TypeError THEN formValues
    ELSE AjvDataAfter(formJsonToValidationSchema(formJson), formValues)

\* the request body after validator(req.body) of the validate route
ValuesAfter_validateRoute(formJson, body) ==
    IF SharedFormJsonToJsonSchema(formJson) = TypeError THEN body
    ELSE AjvDataAfter(SharedFormJsonToJsonSchema(formJson), body)

\* the function is applied to the value map drawn, and once more to the
\* value map it leaves; validateFormValues only reads formValues[name]
Apply_validateFormValues ==
    /\ vOut' = [fn |-> "validateFormValues",
                outcome |-> validateFormValues(ValueMap(vIn), <<vIn.field>>),
                values |-> ValueMap(vIn),
                again |-> validateFormValues(ValueMap(vIn), <<vIn.field>>)]
    /\ UNCHANGED <<variant, action, state, ctx, pending, status, lastEvent, lastStep, vIn,
                 sessions, validatorErrors>>

Apply_validateWithAJV ==
    /\ vOut' = [fn |-> "validateWithAJV",
                outcome |-> validateWithAJV(ValueMap(vIn), <<vIn.field>>),
                values |-> ValuesAfter_validateWithAJV(ValueMap(vIn), <<vIn.field>>),
                again |-> validateWithAJV(
                            ValuesAfter_validateWithAJV(ValueMap(vIn), <<vIn.field>>),
                            <<vIn.field>>)]
    /\ UNCHANGED <<variant, action, state, ctx, pending, status, lastEvent, lastStep, vIn,
                 sessions, validatorErrors>>

\* POST /api/actions/:id/validate on an action made of the field drawn
Apply_validateRoute ==
    /\ vOut' = [fn |-> "validateRoute",
                outcome |-> ValidateRoute(<<vIn.field>>, ValueMap(vIn)).errors,
                values |-> ValuesAfter_validateRoute(<<vIn.field>>, ValueMap(vIn)),
                again |-> ValidateRoute(
                            <<vIn.field>>,
                            ValuesAfter_validateRoute(<<vIn.field>>, ValueMap(vIn))).errors]
    /\ UNCHANGED <<variant, action, state, ctx, pending, status, lastEvent, lastStep, vIn,
                 sessions, validatorErrors>>

ValidateNext ==
    \/ Apply_validateFormValues
    \/ Apply_validateWithAJV
    \/ Apply_validateRoute

SpecValidate == ValidateInit /\ [][ValidateNext]_vars

(***************************************************************************)
(* The schema compilers as pure functions: a field definition is drawn and *)
(* each compiler is applied to the list holding it                         *)
(***************************************************************************)
\* the kinds drawn: those of the kind table, and one no compiler knows
CompileKinds ==
    {"string", "text", "textarea", "password", "email", "number", "integer",
     "boolean", "date", "select", "radio", "color"}

\* the field definitions drawn
CompileFields ==
    {[Field("f") EXCEPT !.type = t, !.label = Some("F"), !.minLength = a,
                        !.maxLength = b, !.pattern = p, !.minimum = lo,
                        !.maximum = hi, !.options = o] :
        t \in {None} \cup {Some(k) : k \in CompileKinds},
        a \in {None, Some(3)},
        b \in {None, Some(3)},
        p \in {None, Some("^a+$")},
        lo \in {None, Some(0), Some(18)},
        hi \in {None, Some(120)},
        o \in {None, Some(<<Option(StrV(user), "User"), Option(StrV(admin), "Admin")>>)}}

CompileInit ==
    /\ vIn \in [field : CompileFields]
    /\ vOut = [fn |-> "none"]
    /\ variant = "none"
    /\ action = ScenarioAction
    /\ state = "none"
    /\ ctx = EmptyObj
    /\ pending = None
    /\ status = "running"
    /\ lastEvent = [type |-> "none"]
    /\ lastStep = NoStep("none")
    /\ sessions = <<>>
    /\ validatorErrors = <<>>

\* validators.js formJsonToValidationSchema
Apply_formJsonToValidationSchema ==
    /\ vOut' = [fn |-> "formJsonToValidationSchema",
                schema |-> formJsonToValidationSchema(<<vIn.field>>)]
    /\ UNCHANGED <<variant, action, state, ctx, pending, status, lastEvent, lastStep, vIn,
                 sessions, validatorErrors>>

\* interpretedFormMachine.js formJsonToJsonSchema
Apply_formJsonToJsonSchema ==
    /\ vOut' = [fn |-> "formJsonToJsonSchema",
                schema |-> I_formJsonToJsonSchema(<<vIn.field>>).jsonSchema]
    /\ UNCHANGED <<variant, action, state, ctx, pending, status, lastEvent, lastStep, vIn,
                 sessions, validatorErrors>>

\* the shared module's formJsonToJsonSchema
Apply_sharedFormJsonToJsonSchema ==
    /\ vOut' = [fn |-> "shared formJsonToJsonSchema",
                schema |-> SharedFormJsonToJsonSchema(<<vIn.field>>)]
    /\ UNCHANGED <<variant, action, state, ctx, pending, status, lastEvent, lastStep, vIn,
                 sessions, validatorErrors>>

CompileNext ==
    \/ Apply_formJsonToValidationSchema
    \/ Apply_formJsonToJsonSchema
    \/ Apply_sharedFormJsonToJsonSchema

SpecCompile == CompileInit /\ [][CompileNext]_vars

(***************************************************************************)
(* Two WebSocket sessions on one action.  Each connection creates its own  *)
(* machine and interpreter; the precompiled validator of the action, and   *)
(* the errors property Ajv leaves on it, are shared by both                *)
(***************************************************************************)
SessionIds == {1, 2}

\* the action both connections name
SharedAction == CreateUserAction

\* the CHANGE events a connection sends
SessionChanges ==
    {[field |-> Some("username"), value |-> StrV(ab)],
     [field |-> Some("username"), value |-> StrV(abcd)],
     [field |-> Some("role"), value |-> StrV(user)]}

\* interpret(machine).start() of one connection
NewSession(act) ==
    [state |-> InitialState("server"), ctx |-> S_context(act),
     pending |-> InitialPending("server")]

\* the guard reads the errors of another call: those the property held
\* before its own call of the validator
S_readErrors_stale(before, after) == before

\* for (const err of validator.errors), in the same synchronous call of the
\* guard as validator(ctx.formData): the property holds the errors of this call
S_readErrors(before, after) == after

\* the event makes the machine enter validating, whose guard calls the
\* validator
S_guardRuns(st, ev) ==
    (st = "editing" /\ ev.type = "SUBMIT") \/ (st = "error" /\ ev.type = "RETRY")

\* machine.transition of one session, validator.errors being shared
SessionTransition(act, cur, ev, shared) ==
    IF S_guardRuns(cur.state, ev)
    THEN S_guarded(act, cur.ctx,
                   S_readErrors(shared, S_validator(act, cur.ctx.formData)))
    ELSE S_transition(act, cur.state, cur.ctx, cur.pending, ev)

\* validator.errors after the step: the validator assigns it on every call
SessionValidatorErrors(act, cur, ev, shared) ==
    IF S_guardRuns(cur.state, ev) THEN S_validator(act, cur.ctx.formData) ELSE shared

SessionsInit ==
    /\ sessions = [s \in SessionIds |-> NewSession(SharedAction)]
    /\ validatorErrors = <<>>
    /\ variant = "server"
    /\ action = SharedAction
    /\ state = "none"
    /\ ctx = EmptyObj
    /\ pending = None
    /\ status = "running"
    /\ lastEvent = [type |-> "xstate.init", session |-> 0]
    /\ lastStep = NoStep("none")
    /\ vIn = NoInput
    /\ vOut = NoInput

\* service.send(ev) of session s: the event is processed to completion
SessionSend(s, ev) ==
    /\ sessions' =
          [sessions EXCEPT ![s] =
              LET r == SessionTransition(action, sessions[s], ev, validatorErrors)
              IN  [state |-> r.state, ctx |-> r.ctx, pending |-> r.pending]]
    /\ validatorErrors' = SessionValidatorErrors(action, sessions[s], ev, validatorErrors)
    /\ lastEvent' = [type |-> ev.type, session |-> s]
    /\ UNCHANGED <<variant, action, state, ctx, pending, status, lastStep, vIn, vOut>>

Session_INIT ==
    /\ \E s \in SessionIds : SessionSend(s, [type |-> "INIT", initialData |-> None])

Session_CHANGE ==
    /\ \E s \in SessionIds, in \in SessionChanges :
            SessionSend(s, [type |-> "CHANGE", field |-> in.field, value |-> in.value])

Session_SUBMIT ==
    /\ \E s \in SessionIds : SessionSend(s, [type |-> "SUBMIT"])

Session_RETRY ==
    /\ \E s \in SessionIds : SessionSend(s, [type |-> "RETRY"])

Session_RESET ==
    /\ \E s \in SessionIds : SessionSend(s, [type |-> "RESET"])

\* the promise a session invoked resolves
Session_HandlerResolves ==
    /\ \E s \in SessionIds :
            /\ Has(sessions[s].pending)
            /\ \E r \in Resolutions("server", action, Get(sessions[s].pending)) :
                    SessionSend(s, [type |-> "done.invoke", data |-> r])

\* the promise a session invoked rejects
Session_HandlerRejects ==
    /\ \E s \in SessionIds :
            /\ Has(sessions[s].pending)
            /\ SessionSend(s, [type |-> "error.platform",
                               data |-> Some(Rejection(None, None))])

SessionsNext ==
    \/ Session_INIT
    \/ Session_CHANGE
    \/ Session_SUBMIT
    \/ Session_RETRY
    \/ Session_RESET
    \/ Session_HandlerResolves
    \/ Session_HandlerRejects

SpecSessions == SessionsInit /\ [][SessionsNext]_vars

(***************************************************************************)
(* The compilers and the seeding of the context on field lists: a field    *)
(* list and an action label are drawn, and each function is applied        *)
(***************************************************************************)
\* the longest field list drawn
MaxFields == 3

\* a boolean field with a default, as the subscribe field of the example action
SubscribeField ==
    [Field("subscribe") EXCEPT !.type = Some("boolean"),
                               !.label = Some("Subscribe to newsletter"),
                               !.default = Some(BoolV(FALSE))]

\* an optional multi-line field with a placeholder
BioField ==
    [Field("bio") EXCEPT !.type = Some("textarea"), !.label = Some("Bio"),
                         !.placeholder = Some("About you")]

\* a check box whose definition gives its default as the number 1
ConsentField ==
    [Field("consent") EXCEPT !.type = Some("boolean"), !.label = Some("Consent"),
                             !.default = Some(NumV(1))]

\* the fields the lists are made of: UsernameString and RoleField are
\* required, AgeField is an optional integer
ListFields ==
    {UsernameString, RoleField, AgeField, SubscribeField, BioField, ConsentField}

\* the field lists of at most k fields, names unique within a list
RECURSIVE FieldLists(_)
FieldLists(k) ==
    IF k = 0 THEN {<<>>}
    ELSE LET shorter == FieldLists(k - 1)
         IN  shorter \cup
             {Append(p[1], p[2]) :
                p \in {q \in shorter \X ListFields : q[2].name \notin FieldNames(q[1])}}

ActionLabels == {None, Some("Create User"), Some("Create Order")}

\* the action drawn
FormsAction == [id |-> "drawn", label |-> vIn.label, formJson |-> vIn.formJson]

\* the list a call of a compiler pushes the required names to is the list
\* an earlier call returned
RequiredAtEntry_shared(earlier) == earlier

\* const schema = { ..., properties: {}, required: [] } is created inside the
\* function: the list a call pushes to is empty at entry, whatever an
\* earlier call returned
RequiredAtEntry(earlier) == <<>>

\* the schema a compiler returns when it is called again after a call that
\* returned earlier
CalledAgain(earlier, schema) ==
    IF schema = TypeError \/ earlier = TypeError THEN schema
    ELSE [schema EXCEPT !.required = RequiredAtEntry(earlier.required) \o @]

\* buildSchemas: (a = action) => formJsonToJsonSchema(a.formJson)
I_buildSchemas(a) == I_formJsonToJsonSchema(a.formJson)

\* a value the field's rules accept
ValidValue(field) ==
    CASE field.type \in {Some("number"), Some("integer")} -> NumV(30)
      [] field.type = Some("boolean") -> BoolV(TRUE)
      [] field.type = Some("select") -> Get(field.options)[1].value
      [] OTHER -> StrV(abcd)

\* the values of a session in which the user has given every required field
\* a valid value and touched nothing else
RECURSIVE FillRequired(_, _)
FillRequired(form, formJson) ==
    IF formJson = <<>> THEN form
    ELSE FillRequired(
            IF Head(formJson).required
            THEN SpreadSet(form, Head(formJson).name, ValidValue(Head(formJson)))
            ELSE form,
            Tail(formJson))

NoForms == [fn |-> "none"]

FormsInit ==
    /\ vIn \in [formJson : FieldLists(MaxFields), label : ActionLabels]
    /\ vOut = NoForms
    /\ variant = "none"
    /\ action = ScenarioAction
    /\ state = "none"
    /\ ctx = EmptyObj
    /\ pending = None
    /\ status = "running"
    /\ lastEvent = [type |-> "none"]
    /\ lastStep = NoStep("none")
    /\ sessions = <<>>
    /\ validatorErrors = <<>>

FormsFrame ==
    UNCHANGED <<variant, action, state, ctx, pending, status, lastEvent, lastStep, vIn,
                sessions, validatorErrors>>

\* validators.js formJsonToValidationSchema, called twice
Forms_formJsonToValidationSchema ==
    /\ vOut' = [fn |-> "formJsonToValidationSchema",
                schema |-> formJsonToValidationSchema(vIn.formJson),
                again |-> CalledAgain(formJsonToValidationSchema(vIn.formJson),
                                      formJsonToValidationSchema(vIn.formJson))]
    /\ FormsFrame

\* the shared module's formJsonToJsonSchema, called twice
Forms_sharedFormJsonToJsonSchema ==
    /\ vOut' = [fn |-> "shared formJsonToJsonSchema",
                schema |-> SharedFormJsonToJsonSchema(vIn.formJson),
                again |-> CalledAgain(SharedFormJsonToJsonSchema(vIn.formJson),
                                      SharedFormJsonToJsonSchema(vIn.formJson))]
    /\ FormsFrame

\* the shared module's formJsonToUiSchema, called twice
Forms_formJsonToUiSchema ==
    /\ vOut' = [fn |-> "formJsonToUiSchema",
                ui |-> formJsonToUiSchema(vIn.formJson),
                again |-> formJsonToUiSchema(vIn.formJson)]
    /\ FormsFrame

\* interpretedFormMachine.js buildSchemas(a) on the action drawn, called twice
Forms_buildSchemas ==
    /\ vOut' = [fn |-> "buildSchemas",
                schema |-> I_buildSchemas(FormsAction).jsonSchema,
                ui |-> I_buildSchemas(FormsAction).uiSchema,
                again |-> CalledAgain(I_buildSchemas(FormsAction).jsonSchema,
                                      I_buildSchemas(FormsAction).jsonSchema)]
    /\ FormsFrame

\* formMachineFactory.js createFormMachine(action): the context of a fresh session
Forms_buildInitialValues ==
    /\ vOut' = [fn |-> "buildInitialValues", values |-> F_context(FormsAction).form]
    /\ FormsFrame

\* interpretedFormMachine.js createFormMachine(action): the context of a fresh session
Forms_initialForm ==
    /\ vOut' = [fn |-> "initialForm", values |-> I_context(FormsAction).form]
    /\ FormsFrame

\* the factory machine is opened, every required field is given a valid
\* value, and SUBMIT is sent
Forms_submit ==
    /\ vOut' =
          LET c == [F_context(FormsAction) EXCEPT
                        !.form = FillRequired(@, vIn.formJson)]
              r == F_transition(FormsAction, "editing", c, None, [type |-> "SUBMIT"])
          IN  [fn |-> "SUBMIT", values |-> c.form, state |-> r.state,
               outcome |-> r.ctx.errors]
    /\ FormsFrame

FormsNext ==
    \/ Forms_formJsonToValidationSchema
    \/ Forms_sharedFormJsonToJsonSchema
    \/ Forms_formJsonToUiSchema
    \/ Forms_buildSchemas
    \/ Forms_buildInitialValues
    \/ Forms_initialForm
    \/ Forms_submit

SpecForms == FormsInit /\ [][FormsNext]_vars

(***************************************************************************)
(* Properties                                                              *)
(***************************************************************************)
\* the form values of the session's context
Values(var, c) == IF var \in {"factory", "interpreted"} THEN c.form ELSE c.formData

\* the validator the machine variant runs on SUBMIT
Validate(var, act, values) ==
    IF var = "factory" THEN validateWithAJV(values, act.formJson)
    ELSE validateFormValues(values, act.formJson)

\* the last step processed an event of this type in this state
Processed(type, from) == lastEvent.type = type /\ lastStep.from = from

\* C1: in the factory machine, when the submit handler rejects with
\* {message: m} while the machine is in submitting, the machine settles in
\* editing with serverError = m and submitting = false.
C1_RejectionKeepsServerError ==
    (/\ variant = "factory"
     /\ Processed("error.platform", "submitting")
     /\ Has(lastEvent.data)
     /\ TruthyStr(Get(lastEvent.data).message))
    => (/\ state = "editing"
        /\ ctx.serverError = Get(lastEvent.data).message
        /\ ctx.submitting = FALSE)

\* C2: in the machines with a validating state, every call of the submit
\* handler is preceded, in the same step, by a validation of exactly the
\* values passed to the handler, and that validation's outcome was empty;
\* the promise pending in submitting is the call of that step.
C2_InvokedOnlyAfterValidation ==
    variant \in {"factory", "interpreted", "server"} =>
        /\ \A i \in 1..Len(lastStep.invoked) :
                \E j \in 1..Len(lastStep.validated) :
                    /\ lastStep.validated[j].values = lastStep.invoked[i]
                    /\ NoKeys(lastStep.validated[j].outcome)
        /\ (state = "submitting" /\ lastStep.handled) =>
                /\ Has(pending)
                /\ lastStep.invoked = <<Get(pending).arg>>
        /\ state # "submitting" => ~Has(pending)

C2_Witness ==
    /\ variant = "server"
    /\ Processed("RETRY", "error")
    /\ state = "submitting"
    /\ Len(lastStep.invoked) = 1

\* C3: in the factory and interpreted machines, SUBMIT processed in editing
\* leaves the machine in submitting when the validator's outcome for the
\* values in context is empty and in editing when it is not; the machine
\* never rests in validating.
C3_SubmitSettles ==
    [][(/\ variant \in {"factory", "interpreted"}
        /\ lastEvent'.type = "SUBMIT"
        /\ state = "editing")
       => (/\ state' = IF NoKeys(Validate(variant, action, ctx.form))
                       THEN "submitting" ELSE "editing"
           /\ state' # "validating")]_vars

C3_Witness ==
    /\ variant = "factory"
    /\ Processed("SUBMIT", "editing")
    /\ state = "editing"
    /\ ~NoKeys(ctx.errors)

\* C4: in every machine variant, a CHANGE event received in submitting
\* changes neither the state nor the context (values and field errors
\* included) nor the pending call, and when the handler settles the values
\* in context are the values the handler was called with.
C4_NoChangeWhileSubmitting ==
    [][/\ (state = "submitting" /\ lastEvent'.type = "CHANGE")
            => (state' = state /\ ctx' = ctx /\ pending' = pending)
       /\ (state = "submitting" /\ lastEvent'.type \in {"done.invoke", "error.platform"})
            => (Has(pending) /\ Values(variant, ctx) = Get(pending).arg)]_vars

C4_Witness ==
    /\ variant = "client"
    /\ Processed("CHANGE", "submitting")
    /\ state = "submitting"

\* C5: in the factory machine, whenever OPEN is processed in idle the
\* machine is in editing with the default values, no field errors, no
\* result and no serverError.
C5_OpenFromIdleResets ==
    (variant = "factory" /\ Processed("OPEN", "idle"))
    => (/\ state = "editing"
        /\ ctx.form = buildInitialValues(action.formJson)
        /\ NoKeys(ctx.errors)
        /\ ctx.result = None
        /\ ctx.serverError = None)

\* C6: in the factory and interpreted machines, when the submit handler
\* resolves with a payload r while the machine is in submitting, the machine
\* settles in success with result = r and submitting = false.
C6_ResolveStoresResult ==
    (/\ variant \in {"factory", "interpreted"}
     /\ Processed("done.invoke", "submitting"))
    => (/\ state = "success"
        /\ ctx.result = Some(lastEvent.data)
        /\ ctx.submitting = FALSE)

C6_Witness ==
    /\ variant = "interpreted"
    /\ Processed("done.invoke", "submitting")
    /\ state = "success"

\* the outcome the claim states for the username scenario
ScenarioOutcome ==
    [k \in {"username"} |-> "Username must have at least 3 characters"]

\* C7: in the factory and interpreted machines, SUBMIT processed in editing
\* with a non-empty validation outcome settles in editing with the field
\* errors equal to that outcome and without a handler call; for the
\* username scenario and the value 'ab' the stored outcome is
\* {username: 'Username must have at least 3 characters'}.
C7_InvalidSubmitStoresOutcome ==
    /\ (/\ variant \in {"factory", "interpreted"}
        /\ Processed("SUBMIT", "editing")
        /\ ~NoKeys(Validate(variant, action, ctx.form)))
       => (/\ state = "editing"
           /\ ctx.errors = Validate(variant, action, ctx.form)
           /\ lastStep.invoked = <<>>)
    /\ (/\ variant \in {"factory", "interpreted"}
        /\ action = ScenarioAction
        /\ Processed("SUBMIT", "editing")
        /\ Lookup(ctx.form, "username") = StrV(ab))
       => (/\ state = "editing"
           /\ ctx.errors = ScenarioOutcome
           /\ lastStep.invoked = <<>>)

\* C8: in the factory and interpreted machines, CHANGE(name, value)
\* processed in editing keeps the machine in editing, sets values[name] to
\* value, removes name's entry from the field errors, and leaves every other
\* value and every other error entry unchanged.
C8_ChangeFrame ==
    [][(/\ variant \in {"factory", "interpreted"}
        /\ state = "editing"
        /\ lastEvent'.type = "CHANGE"
        /\ Has(lastEvent'.name))
       => LET name == Get(lastEvent'.name)
          IN  /\ state' = "editing"
              /\ DOMAIN ctx'.form = DOMAIN ctx.form \cup {name}
              /\ ctx'.form[name] = lastEvent'.value
              /\ \A k \in DOMAIN ctx.form \ {name} : ctx'.form[k] = ctx.form[k]
              /\ DOMAIN ctx'.errors = DOMAIN ctx.errors \ {name}
              /\ \A k \in DOMAIN ctx'.errors : ctx'.errors[k] = ctx.errors[k]]_vars

C8_Witness ==
    /\ variant = "interpreted"
    /\ Processed("CHANGE", "editing")
    /\ lastEvent.name = Some("username")
    /\ ctx.form["username"] = lastEvent.value
    /\ DOMAIN ctx.errors = {"role"}

\* a value that counts as missing: absent, null, or a string that is empty
\* after trimming
Missing(v) == v = Undefined \/ v = NullV \/ (v.t = "string" /\ Trim(v.s) = <<>>)

\* C9: for a required field, each validator's outcome has an entry for the
\* field whenever its value is absent, null, or a string that is empty after
\* trimming.
C9_RequiredMissingReported ==
    (vOut.fn # "none" /\ vIn.field.required /\ Missing(vIn.value))
    => vIn.field.name \in DOMAIN vOut.outcome

\* the value is a non-empty string that breaks a maxLength, a pattern or
\* the option set declared on the field
BreaksDeclaredRule(f, v) ==
    /\ v.t = "string"
    /\ v.s # <<>>
    /\ \/ Has(f.maxLength) /\ Len(v.s) > Get(f.maxLength)
       \/ Has(f.pattern) /\ ~PatternTest(Get(f.pattern), v.s)
       \/ /\ f.type = Some("select")
          /\ Has(f.options)
          /\ ~\E k \in 1..Len(Get(f.options)) : Get(f.options)[k].value = v

\* C10: a present, non-empty value that violates a declared maxLength, a
\* declared pattern or the option set of a select field yields a non-empty
\* outcome from each validator.
C10_DeclaredRulesEnforced ==
    (vOut.fn # "none" /\ BreaksDeclaredRule(vIn.field, vIn.value))
    => ~NoKeys(vOut.outcome)

\* the rules of a field after required and type, in the order the
\* specification fixes
RuleOrder ==
    <<"format", "minLength", "maxLength", "minimum", "maximum", "enum", "pattern">>

\* the value is of the JavaScript type the field's kind holds
OfFieldType(f, v) ==
    IF f.type \in {Some("number"), Some("integer")} THEN v.t = "number"
    ELSE IF f.type = Some("boolean") THEN v.t = "boolean"
    ELSE v.t = "string"

\* the value breaks the rule as declared on the field (an address counts as
\* invalid when both validators' notions of an email address reject it)
BreaksRule(f, v, rule) ==
    CASE rule = "format" ->
            /\ f.format = Some("email") \/ f.type = Some("email")
            /\ v.t = "string"
            /\ ~EmailRegexTest(v.s) /\ ~AjvEmailFormat(v.s)
      [] rule = "minLength" ->
            v.t = "string" /\ Has(f.minLength) /\ Len(v.s) < Get(f.minLength)
      [] rule = "maxLength" ->
            v.t = "string" /\ Has(f.maxLength) /\ Len(v.s) > Get(f.maxLength)
      [] rule = "minimum" ->
            v.t = "number" /\ Has(f.minimum) /\ v.n < Get(f.minimum)
      [] rule = "maximum" ->
            v.t = "number" /\ Has(f.maximum) /\ v.n > Get(f.maximum)
      [] rule = "enum" ->
            /\ f.type = Some("select") /\ Has(f.options)
            /\ ~\E k \in 1..Len(Get(f.options)) : Get(f.options)[k].value = v
      [] rule = "pattern" ->
            v.t = "string" /\ Has(f.pattern) /\ ~PatternTest(Get(f.pattern), v.s)

\* the messages that report the rule, in the validators' wording and in the
\* schema engine's
RuleMessages(f, rule) ==
    CASE rule = "format" ->
            {LabelOrName(f) \o " must be a valid email", "must match format \"email\""}
      [] rule = "minLength" ->
            IF ~Has(f.minLength) THEN {}
            ELSE {LabelOrName(f) \o " must have at least " \o NumStr(Get(f.minLength))
                    \o " characters",
                  "must NOT have fewer than " \o NumStr(Get(f.minLength)) \o " characters"}
      [] rule = "maxLength" ->
            IF ~Has(f.maxLength) THEN {}
            ELSE {"must NOT have more than " \o NumStr(Get(f.maxLength)) \o " characters"}
      [] rule = "minimum" ->
            IF ~Has(f.minimum) THEN {}
            ELSE {LabelOrName(f) \o " must be " \o GreaterEqualSign \o " "
                    \o NumStr(Get(f.minimum)),
                  "must be >= " \o NumStr(Get(f.minimum))}
      [] rule = "maximum" ->
            IF ~Has(f.maximum) THEN {}
            ELSE {LabelOrName(f) \o " must be " \o LessEqualSign \o " "
                    \o NumStr(Get(f.maximum)),
                  "must be <= " \o NumStr(Get(f.maximum))}
      [] rule = "enum" ->
            {LabelOrName(f) \o " must be one of the allowed values",
             "must be equal to one of the allowed values"}
      [] rule = "pattern" ->
            IF ~Has(f.pattern) THEN {}
            ELSE {"must match pattern \"" \o Get(f.pattern) \o "\""}

\* C11: the one message a validator records for a field is that of the
\* first rule the value breaks in the fixed order (here for a present value
\* of the field's own type, so after required and type): format, minLength,
\* maxLength, minimum, maximum, enum, pattern; a value both shorter than
\* minLength and not a valid email gets the format message.
C11_FirstViolatedRuleReported ==
    (/\ vOut.fn # "none"
     /\ OfFieldType(vIn.field, vIn.value)
     /\ ~Missing(vIn.value)
     /\ vIn.field.name \in DOMAIN vOut.outcome)
    => \E i \in 1..Len(RuleOrder) :
            /\ BreaksRule(vIn.field, vIn.value, RuleOrder[i])
            /\ \A j \in 1..(i - 1) : ~BreaksRule(vIn.field, vIn.value, RuleOrder[j])
            /\ vOut.outcome[vIn.field.name] \in RuleMessages(vIn.field, RuleOrder[i])

C13_GuardIsPure ==
    /\ variant = "factory" => F_isValid(ctx) = NoKeys(ctx.errors)
    /\ variant = "interpreted" => I_noErrors(ctx) = NoKeys(ctx.errors)
    /\ (variant = "server" /\ state \in {"editing", "error"}) =>
            /\ S_guardContext(action, ctx, S_validator(action, ctx.formData)) = ctx
            /\ S_isValid(action, ctx) = NoKeys(ctx.errors)

\* the states of the snapshots the listeners received during the last step
EmittedStates == [i \in 1..Len(lastStep.emitted) |-> lastStep.emitted[i].state]

\* C14: every step that enters states emits one snapshot per state entered,
\* in the order traversed; for a SUBMIT processed in editing the subscriber
\* observes validating before submitting or editing.
C14_SnapshotPerStateTraversed ==
    /\ (lastStep.handled /\ lastStep.entered # <<>>) => EmittedStates = lastStep.entered
    /\ (variant \in {"factory", "interpreted", "server"} /\ Processed("SUBMIT", "editing"))
            => /\ Len(EmittedStates) = 2
               /\ EmittedStates[1] = "validating"
               /\ EmittedStates[2] \in {"submitting", "editing"}

\* C15: in the WebSocket session, once the connection has closed, a later
\* resolution or rejection of the pending handler call changes neither the
\* state nor the context, and no snapshot is sent.
C15_LateSettlementDiscarded ==
    [][(variant = "server" /\ status = "stopped")
       => (state' = state /\ ctx' = ctx /\ lastStep'.emitted = <<>>)]_vars

C15_Witness ==
    /\ variant = "server"
    /\ status = "stopped"
    /\ state = "submitting"
    /\ lastEvent.type = "done.invoke"
    /\ pending = None

\* the event types the WebSocket session machine has a transition for, by
\* state
ServerAccepts(st) ==
    CASE st = "idle" -> {"INIT"}
      [] st = "editing" -> {"CHANGE", "SUBMIT"}
      [] st = "submitting" -> {}
      [] st = "success" -> {"RESET"}
      [] st = "error" -> {"CHANGE", "RETRY"}
      [] OTHER -> {}

\* C16: in the WebSocket session, an inbound message that cannot be parsed,
\* or whose event type has no transition in the current state, leaves the
\* state, the context and the pending call unchanged and does not stop the
\* session.
C16_BadMessageIgnored ==
    [][(/\ variant = "server"
        /\ lastEvent'.type \in EventTypes \cup {"unparseable", "not an event"}
        /\ lastEvent'.type \notin ServerAccepts(state))
       => (/\ state' = state
           /\ ctx' = ctx
           /\ pending' = pending
           /\ status' = "running")]_vars

C16_Witness ==
    /\ variant = "server"
    /\ lastEvent.type = "unparseable"
    /\ state = "submitting"
    /\ Has(pending)
    /\ status = "running"

\* C20: in the factory machine, OPEN processed in success moves to editing
\* with the default values, no field errors, no result and no serverError;
\* CLOSE processed in success moves to idle and leaves the context unchanged.
C20_SuccessOpenAndClose ==
    [][/\ (variant = "factory" /\ state = "success" /\ lastEvent'.type = "OPEN")
            => (/\ state' = "editing"
                /\ ctx'.form = buildInitialValues(action.formJson)
                /\ NoKeys(ctx'.errors)
                /\ ctx'.result = None
                /\ ctx'.serverError = None)
       /\ (variant = "factory" /\ state = "success" /\ lastEvent'.type = "CLOSE")
            => (state' = "idle" /\ ctx' = ctx)]_vars

C20_Witness ==
    /\ variant = "factory"
    /\ Processed("OPEN", "success")
    /\ state = "editing"
    /\ ctx.result = None

\* the schema type the kind table gives a field kind
KindType(kind) ==
    CASE kind = "number" -> "number"
      [] kind = "integer" -> "integer"
      [] kind = "boolean" -> "boolean"
      [] OTHER -> "string"

\* the kinds the kind table lists
TableKinds == CompileKinds \ {"color"}

\* a compiler was applied to the field drawn and returned a schema
Compiled == vOut.fn # "none" /\ vOut.schema # TypeError

\* C17: each schema compiler maps the field kinds as the table states:
\* string, text, textarea and password to string; email to string with the
\* email format; number to number; integer to integer; boolean to boolean;
\* date to string with the date format; select and radio to string with the
\* option values as enum.
C17_KindTable ==
    (Compiled /\ Has(vIn.field.type) /\ Get(vIn.field.type) \in TableKinds)
    => LET prop == vOut.schema.properties[1].prop
           kind == Get(vIn.field.type)
       IN  /\ prop.type = Some(KindType(kind))
           /\ kind = "email" => prop.format = Some("email")
           /\ kind = "date" => prop.format = Some("date")
           /\ (kind \in {"select", "radio"} /\ Has(vIn.field.options))
                => prop.enum = Some(OptionValues(Get(vIn.field.options)))

\* C18: for a string-typed field (string, text, textarea, password, email)
\* the schema property carries minLength, maxLength and pattern exactly as
\* the definition does (same value when present, absent when absent), and
\* for a numeric field minimum and maximum likewise.
C18_ConstraintsCopied ==
    (Compiled /\ Has(vIn.field.type))
    => LET prop == vOut.schema.properties[1].prop
           kind == Get(vIn.field.type)
       IN  /\ kind \in {"string", "text", "textarea", "password", "email"}
                => /\ prop.minLength = vIn.field.minLength
                   /\ prop.maxLength = vIn.field.maxLength
                   /\ prop.pattern = vIn.field.pattern
           /\ kind \in {"number", "integer"}
                => /\ prop.minimum = vIn.field.minimum
                   /\ prop.maximum = vIn.field.maximum

\* C19: each schema compiler returns a schema for every field list, fields
\* of an unknown kind and select fields without options included.
C19_CompileTotal == vOut.fn # "none" => vOut.schema # TypeError

\* C21: in the factory machine, PREFILL(data) processed in idle moves to
\* editing with values equal to the previous values overridden by data on
\* every key of data and unchanged on every other key; PREFILL in any other
\* state changes nothing.
C21_PrefillMerges ==
    [][(variant = "factory" /\ status = "running" /\ lastEvent'.type = "PREFILL")
        => IF state = "idle"
           THEN /\ state' = "editing"
                /\ DOMAIN ctx'.form = DOMAIN ctx.form \cup DOMAIN lastEvent'.data
                /\ \A k \in DOMAIN lastEvent'.data : ctx'.form[k] = lastEvent'.data[k]
                /\ \A k \in DOMAIN ctx.form \ DOMAIN lastEvent'.data :
                        ctx'.form[k] = ctx.form[k]
           ELSE state' = state /\ ctx' = ctx /\ pending' = pending]_vars

\* a PREFILL of one key was processed in idle over a form of two keys
C21_Witness ==
    /\ variant = "factory"
    /\ Processed("PREFILL", "idle")
    /\ state = "editing"
    /\ DOMAIN lastEvent.data = {"username"}
    /\ DOMAIN ctx.form = {"username", "role"}
    /\ ctx.form["username"] = lastEvent.data["username"]

\* the commands a session host may send to the machine of a variant
Commands(var, act) ==
    {[type |-> t] : t \in Vocabulary(var) \ {"PREFILL", "INIT", "CHANGE"}}
    \cup (IF "PREFILL" \in Vocabulary(var)
          THEN {[type |-> "PREFILL", data |-> d] : d \in PrefillData} ELSE {})
    \cup (IF "INIT" \in Vocabulary(var)
          THEN {[type |-> "INIT", initialData |-> Some(d)] : d \in PrefillData} ELSE {})
    \cup (CASE var \in {"factory", "interpreted"} ->
                {[type |-> "CHANGE", name |-> in.name, value |-> in.value] :
                    in \in ChangeInputs(var, act)}
            [] var = "server" ->
                {[type |-> "CHANGE", field |-> in.name, value |-> in.value] :
                    in \in ChangeInputs(var, act)}
            [] var = "client" ->
                {[type |-> "CHANGE", data |-> d, errors |-> None] : d \in ClientForms})

\* some command has a transition in the current state
HasCommand ==
    \E ev \in Commands(variant, action) :
        Transition(variant, action, state, ctx, pending, ev).handled

\* the last event was a SUBMIT the machine had a transition for
SubmitHandled == status = "running" /\ lastEvent.type = "SUBMIT" /\ lastStep.handled

\* the submission attempt is over, or the session was discarded
SubmitOver ==
    \/ state \in {"success", "editing", "failure", "error"}
    \/ status = "stopped"

\* C22 as stated: in every reachable resting state of each variant other
\* than submitting, at least one inbound command has a transition.
C22_CommandOutsideSubmitting ==
    (status = "running" /\ state # "submitting") => HasCommand

\* C22, amended: while a session is alive the machine never halts.  In every
\* reachable resting state of each variant in which no handler call is
\* pending (every state but submitting and the client's loading) at least
\* one inbound command has a transition; from a state with a pending call
\* the machine leaves as soon as the handler resolves or rejects; so, with a
\* handler that eventually settles, every SUBMIT the machine handles is
\* eventually followed by success, editing, or the variant's failure / error
\* state.
C22_NeverHalts ==
    /\ []((status = "running" /\ pending = None) => HasCommand)
    /\ [][(/\ status = "running"
           /\ Has(pending)
           /\ lastEvent'.type \in {"done.invoke", "error.platform"})
          => (state' # state /\ pending' = None)]_vars
    /\ [](SubmitHandled => <>SubmitOver)

\* the handler settled a submission that a SUBMIT had started
C22_Witness ==
    /\ lastStep.from = "submitting"
    /\ lastEvent.type \in {"done.invoke", "error.platform"}
    /\ state \in {"success", "failure", "error"}
    /\ status = "running"
    /\ HasCommand

\* C23: sessions are independent.  With two WebSocket sessions open on the
\* same action, which share one precompiled validator function and its
\* errors property, an event processed in one session never changes the
\* state or context of the other, and the field errors a session stores are
\* those of its own form data (the guard takes the session to submitting
\* exactly when its own data is valid), for every interleaving of the two
\* sessions' events and handler completions.
C23_SessionsIndependent ==
    [][\A s \in SessionIds :
        lastEvent'.session = s
        => /\ \A t \in SessionIds \ {s} : sessions'[t] = sessions[t]
           /\ S_guardRuns(sessions[s].state, lastEvent')
                => LET own == S_validator(action, sessions[s].ctx.formData)
                   IN  IF own = <<>>
                       THEN /\ sessions'[s].state = "submitting"
                            /\ sessions'[s].ctx.errors = sessions[s].ctx.errors
                       ELSE /\ sessions'[s].state = "editing"
                            /\ sessions'[s].ctx.errors =
                                  S_mapErrors(own, action.formJson, EmptyObj)]_vars

\* session 2 stored the errors of its invalid data while session 1, whose
\* data was valid, waits for its handler
C23_Witness ==
    /\ sessions # <<>>
    /\ lastEvent = [type |-> "SUBMIT", session |-> 2]
    /\ sessions[1].state = "submitting"
    /\ sessions[2].state = "editing"
    /\ sessions[2].ctx.errors # EmptyObj
    /\ sessions[1].ctx.formData # sessions[2].ctx.formData
    /\ validatorErrors # <<>>

C26_BuildSchemasFromAction ==
    vOut.fn = "buildSchemas"
    => /\ vOut.schema.title = IF TruthyStr(vIn.label) THEN Get(vIn.label) ELSE "Form"
       /\ vOut.schema.properties =
            [i \in 1..Len(vIn.formJson) |->
                [name |-> vIn.formJson[i].name, prop |-> InterpretedProp(vIn.formJson[i])]]
       /\ vOut.schema.required = RequiredNames(vIn.formJson)
       /\ vOut.ui = [i \in 1..Len(vIn.formJson) |-> InterpretedUi(vIn.formJson[i])]

\* the positions of the fields with required set
RequiredPositions(formJson) == {i \in 1..Len(formJson) : formJson[i].required}

\* the k-th of them, in field-list order
RequiredPosition(formJson, k) ==
    CHOOSE i \in RequiredPositions(formJson) :
        Cardinality({j \in RequiredPositions(formJson) : j <= i}) = k

\* C27: compiled output preserves field order.  The schema's required list
\* contains exactly the names of the fields with required set, in field-list
\* order, and the UI layout contains exactly one control per field, in
\* field-list order, each scoped to its field's name.
C27_FieldOrderPreserved ==
    /\ (/\ vOut.fn \in {"formJsonToValidationSchema", "shared formJsonToJsonSchema",
                        "buildSchemas"}
        /\ vOut.schema # TypeError)
            => /\ Len(vOut.schema.required) = Cardinality(RequiredPositions(vIn.formJson))
               /\ \A k \in 1..Len(vOut.schema.required) :
                    vOut.schema.required[k] =
                        vIn.formJson[RequiredPosition(vIn.formJson, k)].name
    /\ vOut.fn = "formJsonToUiSchema"
            => /\ Len(vOut.ui.elements) = Len(vIn.formJson)
               /\ \A i \in 1..Len(vIn.formJson) :
                    /\ vOut.ui.elements[i].type = "Control"
                    /\ vOut.ui.elements[i].scope = "#/properties/" \o vIn.formJson[i].name

\* a list with an optional field between two required ones was compiled:
\* role comes before username in the list and in the required list
C27_Witness ==
    /\ vOut.fn = "shared formJsonToJsonSchema"
    /\ Len(vIn.formJson) = 3
    /\ vIn.formJson[1].name = "role"
    /\ ~vIn.formJson[2].required
    /\ vIn.formJson[3].name = "username"
    /\ vOut.schema.required = <<"role", "username">>

\* the submitting flag of the context of a variant
SubmittingFlag(var, c) ==
    IF var \in {"factory", "interpreted"} THEN c.submitting ELSE c.isSubmitting

\* C28: in every machine variant, in every reachable resting state, the
\* context's submitting flag (submitting / isSubmitting) is true if and only
\* if the machine is in the submitting state.
C28_FlagIffSubmitting ==
    SubmittingFlag(variant, ctx) <=> state = "submitting"

\* the handler rejected a submission of the factory machine: the machine left
\* submitting and the flag, set while it was there, is cleared
C28_Witness ==
    /\ variant = "factory"
    /\ Processed("error.platform", "submitting")
    /\ state = "editing"
    /\ ~SubmittingFlag(variant, ctx)

\* C29: for every field with a default, the default value is copied
\* unchanged into the compiled schema property's default annotation and into
\* the initial values map that seeds the session context, so that a fresh
\* session's values[name] equals the field's default.
C29_DefaultsCopied ==
    /\ (/\ vOut.fn \in {"formJsonToValidationSchema", "shared formJsonToJsonSchema",
                        "buildSchemas"}
        /\ vOut.schema # TypeError)
            => \A i \in 1..Len(vIn.formJson) :
                    Has(vIn.formJson[i].default)
                    => vOut.schema.properties[i].prop.default = vIn.formJson[i].default
    /\ vOut.fn \in {"buildInitialValues", "initialForm"}
            => \A i \in 1..Len(vIn.formJson) :
                    Has(vIn.formJson[i].default)
                    => vOut.values[vIn.formJson[i].name] = Get(vIn.formJson[i].default)

\* the value alone is accepted by validateWithAJV for the field
AcceptedAlone(field, v) ==
    NoKeys(validateWithAJV([k \in {field.name} |-> v], <<field>>))

\* the session the claim describes: the values given to the required fields
\* are valid, and a default, where a field has one, is valid too
SeededSession(formJson) ==
    \A i \in 1..Len(formJson) :
        /\ formJson[i].required => AcceptedAlone(formJson[i], ValidValue(formJson[i]))
        /\ Has(formJson[i].default)
                => AcceptedAlone(formJson[i], Get(formJson[i].default))

\* C30: in the factory machine with validateWithAJV, a session in which
\* every required field has been given a valid value and every optional
\* field is left at its seeded initial value (the empty string for every
\* kind but boolean, e.g. an optional integer field) validates to the empty
\* outcome, so SUBMIT reaches submitting.
C30_SeededSubmitReachesSubmitting ==
    (vOut.fn = "SUBMIT" /\ SeededSession(vIn.formJson))
    => (NoKeys(vOut.outcome) /\ vOut.state = "submitting")

\* the events the DynamicForm component sends through useFormMachine:
\* change(name, value), submit() and reset()
HookCommands(act) ==
    {[type |-> "CHANGE", name |-> in.name, value |-> in.value] :
        in \in ChangeInputs("factory", act)}
    \cup {[type |-> "SUBMIT"], [type |-> "RESET"]}

\* the machine as createFormMachine returns it: no event processed so far
Fresh == state = InitialState(variant) /\ ctx = InitialContext(variant, action)

\* C31: a form driven only by the commands the DynamicForm component issues
\* through useFormMachine (change, submit, reset - no OPEN) is usable: on a
\* freshly created factory machine, change(name, value) updates
\* context.form[name], and some sequence of these commands reaches
\* submitting (so one of them, at least, has a transition in the fresh
\* machine).
C31_UsableWithoutOpen ==
    /\ (/\ variant = "factory"
        /\ Processed("CHANGE", InitialState(variant))
        /\ Has(lastEvent.name))
            => Lookup(ctx.form, Get(lastEvent.name)) = lastEvent.value
    /\ (variant = "factory" /\ Fresh)
            => \E ev \in HookCommands(action) :
                    Transition(variant, action, state, ctx, pending, ev).handled

\* C32: in the factory machine, RESET - the command behind the hook's
\* reset() and the success screen's 'Create Another' button - is handled in
\* success: RESET processed in success leaves success with the context reset
\* to defaults, as it does in editing.
C32_ResetHandledInSuccess ==
    (variant = "factory" /\ Processed("RESET", "success"))
    => /\ state # "success"
       /\ ctx.form = buildInitialValues(action.formJson)
       /\ ctx.errors = EmptyObj
       /\ ctx.result = None

\* the context records no failure of a submission
NoFailureRecorded(var, c) ==
    CASE var = "factory" -> c.serverError = None
      [] var = "interpreted" -> c.lastErrorMessage = None
      [] OTHER -> c.serverErrors = EmptyObj

\* C33: in every machine variant, whenever the machine is in success the
\* context records no submission failure: serverError / lastErrorMessage is
\* none (serverErrors is empty), even when an earlier submission of the same
\* session was rejected before the successful one.
C33_SuccessRecordsNoFailure ==
    state = "success" => NoFailureRecorded(variant, ctx)

\* C34: in the client machine of App.jsx, SUBMIT processed in editing while
\* context.errors is non-empty (errors reported by the last CHANGE) does not
\* reach submitting and does not invoke submitForm.  (The step assigns
\* nothing to context.errors, so the errors after it are those before it.)
C34_ClientSubmitBlockedByErrors ==
    (/\ variant = "client"
     /\ Processed("SUBMIT", "editing")
     /\ ctx.errors # <<>>)
    => (state # "submitting" /\ lastStep.invoked = <<>> /\ pending = None)

\* the key of context.errors a handled CHANGE event clears
EditedKey(var, ev) == IF var = "server" THEN KeyOf(ev.field) ELSE KeyOf(ev.name)

\* C35: in the factory, interpreted and shared / server machines, in every
\* reachable state, whenever the machine is in submitting or success the
\* context's field errors are empty; i.e. the field errors only ever hold
\* entries for fields found invalid by the latest validation and not yet
\* edited: a step that validates leaves entries only for fields the
\* validation found invalid, and any other step adds no entry and drops the
\* entry of the field it edits.
C35_ErrorsOnlyForInvalidFields ==
    /\ []((variant \in {"factory", "interpreted", "server"}
                /\ state \in {"submitting", "success"})
            => NoKeys(ctx.errors))
    /\ [][(variant \in {"factory", "interpreted", "server"})
          => IF lastStep'.validated # <<>>
             THEN DOMAIN ctx'.errors \subseteq DOMAIN lastStep'.validated[1].outcome
             ELSE /\ DOMAIN ctx'.errors \subseteq DOMAIN ctx.errors
                  /\ (lastEvent'.type = "CHANGE" /\ lastStep'.handled)
                        => EditedKey(variant, lastEvent') \notin DOMAIN ctx'.errors]_vars

\* the WebSocket session rests in success with every field of the form given
\* and no field error left
C35_Witness ==
    /\ variant = "server"
    /\ state = "success"
    /\ FieldNames(action.formJson) \subseteq DOMAIN ctx.formData
    /\ NoKeys(ctx.errors)

\* C36: in the factory machine, in every reachable state after any sequence
\* of OPEN, PREFILL, CHANGE, SUBMIT, RESET, CLOSE and handler completions,
\* context.form has an entry for every field name of the action's definition.
C36_FormHasEveryField ==
    variant = "factory" => FieldNames(action.formJson) \subseteq DOMAIN ctx.form

\* a CHANGE processed in editing left a form that differs from the initial
\* values and still holds every field of the definition
C36_Witness ==
    /\ variant = "factory"
    /\ Processed("CHANGE", "editing")
    /\ ctx.form # buildInitialValues(action.formJson)
    /\ FieldNames(action.formJson) \subseteq DOMAIN ctx.form

====
